---- MODULE Spec2Model ----
(***************************************************************************)
(* Model of the constant pass (source/val/validate_constants.cpp) and the  *)
(* function pass (source/val/validate_function.cpp) of the SPIR-V          *)
(* validator.  A module is an ordered sequence of instructions; each       *)
(* instruction is dispatched, in module order, to the handler of its       *)
(* opcode family, which answers success or one diagnostic.                 *)
(*                                                                         *)
(* An instruction is a record [opcode, type_id, id, words]: words[1]       *)
(* stands for the opcode word, so the C++ words()[i] is words[i+1] and     *)
(* GetOperandAs(i) is words[i+2] (every operand modelled is one word).     *)
(***************************************************************************)
EXTENDS Integers, Sequences, FiniteSets, TLC

VARIABLES
  capabilities,              \* module capabilities (closed under implication)
  addressing_model,          \* "Logical" or "Physical64"
  relax_logical_pointer,     \* option
  before_hlsl_legalization,  \* option
  ordered_instructions,      \* the module, in order
  pc,                        \* number of instructions dispatched so far
  family,                    \* what the family handler of the last one returned
  result,                    \* what the pass returned for the last one
  definitions,               \* the id-definition table of the module
  uses,                      \* the instructions that use each function id
  uconvert_spec_constant_op, \* feature: UConvert allowed in OpSpecConstantOp
  stack,                     \* the activations of IsTypeNullable in progress
  tail_call_elimination      \* the build turns calls in tail position into jumps

vars == <<capabilities, addressing_model, relax_logical_pointer,
          before_hlsl_legalization, ordered_instructions, pc, family, result,
          definitions, uses, uconvert_spec_constant_op, stack,
          tail_call_elimination>>

-----------------------------------------------------------------------------
(* Bounds of the model.                                                    *)

MaxConstituents == 3
MaxArgs == 2
MaxModuleLen == 4
MaxWalkLen == 3
MaxUses == 2
StackLimit == 4

-----------------------------------------------------------------------------
(* Instructions.                                                           *)

NoId == "%0"

NullInst == [opcode |-> "nullptr", type_id |-> NoId, id |-> NoId, words |-> <<>>]

TypeInst(op, id, rest) ==
  [opcode |-> op, type_id |-> NoId, id |-> id, words |-> <<op, id>> \o rest]

ValueInst(op, type, id, rest) ==
  [opcode |-> op, type_id |-> type, id |-> id, words |-> <<op, type, id>> \o rest]

PlainInst(op) ==
  [opcode |-> op, type_id |-> NoId, id |-> NoId, words |-> <<op>>]

WordsSize(inst) == Len(inst.words)
Word(inst, i) == inst.words[i + 1]
OperandsSize(inst) == Len(inst.words) - 1
GetOperandAs(inst, i) == inst.words[i + 2]

-----------------------------------------------------------------------------
(* Diagnostics.  names lists the ids the message prints with getIdName,    *)
(* and the constituent index where the message prints one; at is the       *)
(* instruction the diagnostic is attached to.                              *)

SPV_SUCCESS == "SPV_SUCCESS"
SPV_ERROR_INVALID_ID == "SPV_ERROR_INVALID_ID"
SPV_ERROR_INVALID_DATA == "SPV_ERROR_INVALID_DATA"
SPV_ERROR_INVALID_CAPABILITY == "SPV_ERROR_INVALID_CAPABILITY"
SPV_ERROR_INVALID_LAYOUT == "SPV_ERROR_INVALID_LAYOUT"
\* The handler did not return: abnormal termination of the process.
CRASH == "CRASH"
\* Marks a site of undefined behaviour, resolved by Outcomes.
UNDEFINED_BEHAVIOUR == "UNDEFINED_BEHAVIOUR"

Diag(code, at, msg, names) ==
  [code |-> code, at |-> at, msg |-> msg, names |-> names]

Success == Diag(SPV_SUCCESS, NullInst, "", <<>>)
Crash == Diag(CRASH, NullInst, "", <<>>)
NotRun == Diag("none", NullInst, "", <<>>)

\* A site of undefined behaviour (a read through a null instruction): the
\* build can produce a crash or any of the answers the code goes on to
\* with whatever the wild read returned.  d is the answer on the path
\* the source takes there.
UndefinedAmong(d, answers) ==
  [code |-> UNDEFINED_BEHAVIOUR, at |-> d.at, msg |-> d.msg,
   names |-> d.names, outcomes |-> {Crash} \cup answers]

\* A diagnostic whose construction dereferences a null instruction.
Undefined(d) == UndefinedAmong(d, {d})

\* What the build can produce for a handler's answer.
Outcomes(d) == IF d.code = UNDEFINED_BEHAVIOUR THEN d.outcomes ELSE {d}

-----------------------------------------------------------------------------
(* The id-definition table of the module under validation: types first,    *)
(* then values.  "%nodef" is an id with no definition.                     *)

TypeDefinitions == {
  TypeInst("OpTypeVoid", "%void", <<>>),
  TypeInst("OpTypeBool", "%bool", <<>>),
  TypeInst("OpTypeInt", "%int", <<32, 0>>),
  TypeInst("OpTypeInt", "%long", <<64, 0>>),
  TypeInst("OpTypeFloat", "%half", <<16>>),
  TypeInst("OpTypeFloat", "%float", <<32>>),
  TypeInst("OpTypeEvent", "%event", <<>>),
  TypeInst("OpTypeDeviceEvent", "%devent", <<>>),
  TypeInst("OpTypeReserveId", "%reserve", <<>>),
  TypeInst("OpTypeQueue", "%queue", <<>>),
  TypeInst("OpTypeSampler", "%sampler", <<>>),
  TypeInst("OpTypeVector", "%v2float", <<"%float", 2>>),
  TypeInst("OpTypeVector", "%v3float", <<"%float", 3>>),
  TypeInst("OpTypeVector", "%v2half", <<"%half", 2>>),
  TypeInst("OpTypeVector", "%v2nodef", <<"%nodef", 2>>),
  TypeInst("OpTypeMatrix", "%mat2", <<"%v2float", 2>>),
  TypeInst("OpTypeMatrix", "%mat_nodef", <<"%nodef", 2>>),
  TypeInst("OpTypeArray", "%arr2", <<"%int", "%c2">>),
  TypeInst("OpTypeArray", "%arrL2", <<"%int", "%cL2">>),
  TypeInst("OpTypeArray", "%arrS", <<"%int", "%spec2">>),
  TypeInst("OpTypeArray", "%arr_nolen", <<"%int", "%nodef">>),
  TypeInst("OpTypeArray", "%arr_noelem", <<"%nodef", "%c2">>),
  TypeInst("OpTypeArray", "%arrS_noelem", <<"%nodef", "%spec2">>),
  TypeInst("OpTypeArray", "%arr_sampler", <<"%sampler", "%c2">>),
  TypeInst("OpTypeRuntimeArray", "%rtarr", <<"%int">>),
  TypeInst("OpTypeStruct", "%s0", <<>>),
  TypeInst("OpTypeStruct", "%s1", <<"%float">>),
  TypeInst("OpTypeStruct", "%s2", <<"%int", "%float">>),
  TypeInst("OpTypeStruct", "%s2b", <<"%int", "%float">>),
  TypeInst("OpTypeStruct", "%s_nested", <<"%s2", "%bool">>),
  TypeInst("OpTypeStruct", "%s_nodef", <<"%int", "%nodef">>),
  TypeInst("OpTypeStruct", "%s_half", <<"%int", "%half">>),
  TypeInst("OpTypeStruct", "%s_ptr", <<"%ptrF">>),
  TypeInst("OpTypeStruct", "%s_psb", <<"%int", "%ptrPSB">>),
  TypeInst("OpTypeStruct", "%s_sampler", <<"%int", "%sampler">>),
  TypeInst("OpTypeStruct", "%s_deep", <<"%int", "%s_sampler">>),
  TypeInst("OpTypePointer", "%ptrF", <<"Function", "%int">>),
  TypeInst("OpTypePointer", "%ptrP", <<"Private", "%int">>),
  TypeInst("OpTypePointer", "%ptrW", <<"Workgroup", "%int">>),
  TypeInst("OpTypePointer", "%ptrAC", <<"AtomicCounter", "%int">>),
  TypeInst("OpTypePointer", "%ptrUC", <<"UniformConstant", "%sampler">>),
  TypeInst("OpTypePointer", "%ptrSB", <<"StorageBuffer", "%int">>),
  TypeInst("OpTypePointer", "%ptrU", <<"Uniform", "%int">>),
  TypeInst("OpTypePointer", "%ptrPSB", <<"PhysicalStorageBuffer", "%int">>),
  TypeInst("OpTypePointer", "%ptrPSB_nodef", <<"PhysicalStorageBuffer", "%nodef">>),
  TypeInst("OpTypePointer", "%ptrPSB_void", <<"PhysicalStorageBuffer", "%void">>),
  TypeInst("OpTypePointer", "%ptrF_nodef", <<"Function", "%nodef">>),
  TypeInst("OpTypePointer", "%ptrF_void", <<"Function", "%void">>),
  TypeInst("OpTypePointer", "%ptrF_s2", <<"Function", "%s2">>),
  TypeInst("OpTypePointer", "%ptrF_s2b", <<"Function", "%s2b">>),
  TypeInst("OpTypePointer", "%ptrF_s2d", <<"Function", "%s2">>),
  TypeInst("OpTypePointer", "%ptrSB_s2b", <<"StorageBuffer", "%s2b">>),
  TypeInst("OpTypeUntypedPointerKHR", "%uptrSB", <<"StorageBuffer">>),
  TypeInst("OpTypeUntypedPointerKHR", "%uptrU", <<"Uniform">>),
  TypeInst("OpTypeUntypedPointerKHR", "%uptrPSB", <<"PhysicalStorageBuffer">>),
  TypeInst("OpTypeCooperativeMatrixKHR", "%cmK", <<"%float", "%c3", "%c2", "%c2", "%c1">>),
  TypeInst("OpTypeCooperativeMatrixNV", "%cmN", <<"%float", "%c3", "%c2", "%c2">>),
  TypeInst("OpTypeCooperativeMatrixKHR", "%cmK_sampler", <<"%sampler", "%c3", "%c2", "%c2", "%c1">>),
  TypeInst("OpTypeCooperativeVectorNV", "%cv2", <<"%float", "%c2">>),
  TypeInst("OpTypeCooperativeVectorNV", "%cvS", <<"%float", "%spec2">>),
  TypeInst("OpTypeTensorARM", "%ten", <<"%int">>),
  TypeInst("OpTypeTensorARM", "%tenR", <<"%int", "%c1">>),
  TypeInst("OpTypeTensorARM", "%ten1", <<"%int", "%c1", "%shape2">>),
  TypeInst("OpTypeTensorARM", "%ten1S", <<"%int", "%c1", "%shapeS">>),
  TypeInst("OpTypeTensorARM", "%ten2", <<"%int", "%c2", "%shape22">>),
  TypeInst("OpTypeTensorARM", "%ten1_sampler", <<"%sampler", "%c1", "%shape2">>),
  TypeInst("OpTypeTensorARM", "%ten1_3", <<"%int", "%c1", "%shape3">>),
  TypeInst("OpTypeTensorARM", "%ten1_long", <<"%int", "%c1", "%shape22">>),
  TypeInst("OpTypeTensorARM", "%ten1_noshape", <<"%int", "%c1", "%nodef">>),
  TypeInst("OpTypeTensorARM", "%tenS1", <<"%int", "%spec2", "%shape2">>),
  TypeInst("OpTypeTensorARM", "%tenS1_3", <<"%int", "%spec2", "%shape3">>),
  TypeInst("OpTypeTensorARM", "%tenS_long", <<"%int", "%spec2", "%shape22">>),
  TypeInst("OpTypeTensorARM", "%ten2_23", <<"%int", "%c2", "%shape23">>),
  TypeInst("OpTypeTensorARM", "%ten2_2S", <<"%int", "%c2", "%shape2S">>),
  TypeInst("OpTypeTensorARM", "%ten2_short", <<"%int", "%c2", "%shape2">>),
  TypeInst("OpTypeTensorARM", "%ten3", <<"%int", "%c3", "%shape223">>),
  TypeInst("OpTypeArray", "%arr3", <<"%int", "%c3">>),
  TypeInst("OpTypeArray", "%arr1", <<"%int", "%c1">>),
  TypeInst("OpTypeFunction", "%fn_void", <<"%void">>),
  TypeInst("OpTypeFunction", "%fn_int", <<"%int">>),
  TypeInst("OpTypeFunction", "%fn_i", <<"%void", "%int">>),
  TypeInst("OpTypeFunction", "%fn_if", <<"%void", "%int", "%float">>),
  TypeInst("OpTypeFunction", "%fn_nodef", <<"%void", "%nodef">>),
  TypeInst("OpTypeFunction", "%fn_pF", <<"%void", "%ptrF">>),
  TypeInst("OpTypeFunction", "%fn_pW", <<"%void", "%ptrW">>),
  TypeInst("OpTypeFunction", "%fn_pUC", <<"%void", "%ptrUC">>),
  TypeInst("OpTypeFunction", "%fn_pSB", <<"%void", "%ptrSB">>),
  TypeInst("OpTypeFunction", "%fn_pU", <<"%void", "%ptrU">>),
  TypeInst("OpTypeFunction", "%fn_pPSB", <<"%void", "%ptrPSB">>),
  TypeInst("OpTypeFunction", "%fn_uSB", <<"%void", "%uptrSB">>),
  TypeInst("OpTypeFunction", "%fn_uU", <<"%void", "%uptrU">>),
  TypeInst("OpTypeFunction", "%fn_pS", <<"%void", "%ptrF_s2">>),
  TypeInst("OpTypeFunction", "%fn_pSd", <<"%void", "%ptrF_s2d">>),
  TypeInst("OpTypeFunction", "%fn_pSBb", <<"%void", "%ptrSB_s2b">>),
  TypeInst("OpTypeFunction", "%fn_pe", <<"%float", "%int", "%int", "%float">>),
  TypeInst("OpTypeFunction", "%fn_pe2", <<"%float", "%int", "%int">>),
  TypeInst("OpTypeFunction", "%fn_pe_long", <<"%float", "%long", "%int", "%float">>),
  TypeInst("OpTypeFunction", "%fn_pe_half", <<"%float", "%int", "%half", "%float">>),
  TypeInst("OpTypeFunction", "%fn_pe_ret", <<"%int", "%int", "%int", "%float">>),
  TypeInst("OpTypeFunction", "%fn_pe_p2", <<"%float", "%int", "%int", "%int">>),
  TypeInst("OpTypePointer", "%pfn_void", <<"CodeSectionINTEL", "%fn_void">>),
  TypeInst("OpTypePointer", "%pfn_i", <<"CodeSectionINTEL", "%fn_i">>),
  TypeInst("OpTypePointer", "%pfn_nodef", <<"CodeSectionINTEL", "%nodef">>),
  TypeInst("OpTypePointer", "%ptrF_half", <<"Function", "%half">>)
}

ValueDefinitions == {
  ValueInst("OpConstant", "%int", "%c1", <<1>>),
  ValueInst("OpConstant", "%int", "%c2", <<2>>),
  ValueInst("OpConstant", "%int", "%c3", <<3>>),
  ValueInst("OpConstant", "%long", "%cL2", <<2>>),
  ValueInst("OpSpecConstant", "%int", "%spec2", <<2>>),
  ValueInst("OpConstant", "%float", "%cf", <<1>>),
  ValueInst("OpConstant", "%half", "%ch", <<1>>),
  ValueInst("OpUndef", "%int", "%undef_int", <<>>),
  ValueInst("OpConstant", "%nodef", "%c_notype", <<1>>),
  ValueInst("OpConstantComposite", "%v2float", "%cv2float", <<"%cf", "%cf">>),
  ValueInst("OpConstantComposite", "%v3float", "%cv3float", <<"%cf", "%cf", "%cf">>),
  ValueInst("OpConstantComposite", "%v2half", "%cv2half", <<"%ch", "%ch">>),
  ValueInst("OpConstantComposite", "%v2nodef", "%cv2nodef", <<"%cf", "%cf">>),
  ValueInst("OpConstantComposite", "%arr1", "%shape2", <<"%c2">>),
  ValueInst("OpConstantComposite", "%arr1", "%shapeS", <<"%spec2">>),
  ValueInst("OpConstantComposite", "%arr2", "%shape22", <<"%c2", "%c2">>),
  ValueInst("OpConstantComposite", "%arr2", "%shape23", <<"%c2", "%c3">>),
  ValueInst("OpConstantComposite", "%ten1", "%cten1", <<"%c1", "%c1">>),
  ValueInst("OpFunctionParameter", "%int", "%par_int", <<>>),
  ValueInst("OpFunctionParameter", "%float", "%par_float", <<>>),
  ValueInst("OpFunctionParameter", "%nodef", "%par_nodef", <<>>),
  ValueInst("OpFunctionParameter", "%ptrF", "%par_pF", <<>>),
  ValueInst("OpVariable", "%ptrF", "%var_F", <<"Function">>),
  ValueInst("OpVariable", "%ptrW", "%var_W", <<"Workgroup">>),
  ValueInst("OpVariable", "%ptrUC", "%var_UC", <<"UniformConstant">>),
  ValueInst("OpVariable", "%ptrSB", "%var_SB", <<"StorageBuffer">>),
  ValueInst("OpVariable", "%ptrU", "%var_U", <<"Uniform">>),
  ValueInst("OpVariable", "%ptrPSB", "%var_PSB", <<"PhysicalStorageBuffer">>),
  ValueInst("OpVariable", "%ptrF_s2", "%var_s2", <<"Function">>),
  ValueInst("OpVariable", "%ptrF_s2b", "%var_s2b", <<"Function">>),
  ValueInst("OpVariable", "%ptrF_s2d", "%var_s2d", <<"Function">>),
  ValueInst("OpVariable", "%ptrSB_s2b", "%var_SB_s2b", <<"StorageBuffer">>),
  ValueInst("OpUntypedVariableKHR", "%uptrSB", "%uvar_SB", <<"StorageBuffer">>),
  ValueInst("OpUntypedVariableKHR", "%uptrU", "%uvar_U", <<"Uniform">>),
  ValueInst("OpAccessChain", "%ptrF", "%ac_F", <<"%var_F">>),
  ValueInst("OpAccessChain", "%ptrW", "%ac_W", <<"%var_W">>),
  ValueInst("OpAccessChain", "%ptrUC", "%ac_UC", <<"%var_UC">>),
  ValueInst("OpAccessChain", "%ptrSB", "%ac_SB", <<"%var_SB">>),
  ValueInst("OpAccessChain", "%ptrF_s2b", "%ac_s2b", <<"%var_s2b">>),
  ValueInst("OpUntypedAccessChainKHR", "%uptrSB", "%uac_SB", <<"%uvar_SB">>),
  ValueInst("OpCopyObject", "%nodef", "%val_notype", <<"%c1">>),
  ValueInst("OpFunction", "%void", "%f_void", <<"None", "%fn_void">>),
  ValueInst("OpFunction", "%int", "%f_int", <<"None", "%fn_int">>),
  ValueInst("OpFunction", "%void", "%f_i", <<"None", "%fn_i">>),
  ValueInst("OpFunction", "%void", "%f_if", <<"None", "%fn_if">>),
  ValueInst("OpFunction", "%void", "%f_nodef", <<"None", "%fn_nodef">>),
  ValueInst("OpFunction", "%nodef", "%f_noret", <<"None", "%fn_i">>),
  ValueInst("OpFunction", "%void", "%f_nofn", <<"None", "%nodef">>),
  ValueInst("OpFunction", "%void", "%f_badfn", <<"None", "%int">>),
  ValueInst("OpFunction", "%void", "%f_pF", <<"None", "%fn_pF">>),
  ValueInst("OpFunction", "%void", "%f_pW", <<"None", "%fn_pW">>),
  ValueInst("OpFunction", "%void", "%f_pUC", <<"None", "%fn_pUC">>),
  ValueInst("OpFunction", "%void", "%f_pSB", <<"None", "%fn_pSB">>),
  ValueInst("OpFunction", "%void", "%f_pU", <<"None", "%fn_pU">>),
  ValueInst("OpFunction", "%void", "%f_pPSB", <<"None", "%fn_pPSB">>),
  ValueInst("OpFunction", "%void", "%f_uSB", <<"None", "%fn_uSB">>),
  ValueInst("OpFunction", "%void", "%f_uU", <<"None", "%fn_uU">>),
  ValueInst("OpFunction", "%void", "%f_pS", <<"None", "%fn_pS">>),
  ValueInst("OpFunction", "%void", "%f_pSd", <<"None", "%fn_pSd">>),
  ValueInst("OpFunction", "%void", "%f_pSBb", <<"None", "%fn_pSBb">>),
  ValueInst("OpFunction", "%float", "%f_pe", <<"None", "%fn_pe">>),
  ValueInst("OpFunction", "%float", "%f_pe2", <<"None", "%fn_pe2">>),
  ValueInst("OpFunction", "%float", "%f_pe_long", <<"None", "%fn_pe_long">>),
  ValueInst("OpFunction", "%float", "%f_pe_half", <<"None", "%fn_pe_half">>),
  ValueInst("OpFunction", "%int", "%f_pe_ret", <<"None", "%fn_pe_ret">>),
  ValueInst("OpFunction", "%float", "%f_pe_p2", <<"None", "%fn_pe_p2">>),
  ValueInst("OpUndef", "%cmK", "%m_cmK", <<>>),
  ValueInst("OpUndef", "%cmN", "%m_cmN", <<>>),
  ValueInst("OpUndef", "%ten", "%undef_ten", <<>>),
  ValueInst("OpConstantComposite", "%arr1", "%shape3", <<"%c3">>),
  ValueInst("OpConstantComposite", "%arr2", "%shape2S", <<"%c2", "%spec2">>),
  ValueInst("OpConstantComposite", "%arr3", "%shape223", <<"%c2", "%c2", "%c3">>),
  ValueInst("OpUndef", "%ten1S", "%u_ten1S", <<>>),
  ValueInst("OpUndef", "%ten1_sampler", "%u_ten1_sampler", <<>>),
  ValueInst("OpUndef", "%ten1_3", "%u_ten1_3", <<>>),
  ValueInst("OpUndef", "%ten1_long", "%u_ten1_long", <<>>),
  ValueInst("OpUndef", "%ten1_noshape", "%u_ten1_noshape", <<>>),
  ValueInst("OpUndef", "%tenS1", "%u_tenS1", <<>>),
  ValueInst("OpUndef", "%tenS1_3", "%u_tenS1_3", <<>>),
  ValueInst("OpUndef", "%tenS_long", "%u_tenS_long", <<>>),
  ValueInst("OpUndef", "%ten2", "%u_ten2", <<>>),
  ValueInst("OpUndef", "%ten2_23", "%u_ten2_23", <<>>),
  ValueInst("OpUndef", "%ten2_short", "%u_ten2_short", <<>>)
}

ModuleDefinitions == TypeDefinitions \cup ValueDefinitions

DefinedIds == {d.id : d \in ModuleDefinitions}

DefinitionTable == [i \in DefinedIds |-> CHOOSE d \in ModuleDefinitions : d.id = i]

\* Composite types that refer to themselves: a struct that has itself as a
\* member, an array and a vector of themselves, a tensor of itself, a struct
\* and an array of each other, and a struct that has a member without a null
\* value before the member that is the struct itself.
CyclicTypeDefinitions == {
  TypeInst("OpTypeStruct", "%s_self", <<"%int", "%s_self">>),
  TypeInst("OpTypeArray", "%arr_self", <<"%arr_self", "%c2">>),
  TypeInst("OpTypeVector", "%v_self", <<"%v_self", 2>>),
  TypeInst("OpTypeTensorARM", "%ten_self", <<"%ten_self", "%c1", "%shape2">>),
  TypeInst("OpTypeStruct", "%s_of_arr", <<"%arr_of_s">>),
  TypeInst("OpTypeArray", "%arr_of_s", <<"%s_of_arr", "%c2">>),
  TypeInst("OpTypeStruct", "%s_psb_self", <<"%ptrPSB", "%s_psb_self">>)}

CyclicTable ==
  [i \in DefinedIds \cup {d.id : d \in CyclicTypeDefinitions} |->
     IF i \in DefinedIds THEN DefinitionTable[i]
     ELSE CHOOSE d \in CyclicTypeDefinitions : d.id = i]

\* ValidationState_t::FindDef: the defining instruction, or null.
FindDef(id) == IF id \in DOMAIN definitions THEN definitions[id] ELSE NullInst

\* ValidationState_t::id_decorations: the decorations applied to an id.
id_decorations(id) == IF id = "%ptrF_s2d" THEN {"ArrayStride"} ELSE {}

\* ValidationState_t::HasCapability.
HasCapability(cap) == cap \in capabilities

\* ValidationState_t::features().variable_pointers: set when either
\* variable-pointers capability is registered.
features_variable_pointers ==
  HasCapability("VariablePointers") \/ HasCapability("VariablePointersStorageBuffer")

-----------------------------------------------------------------------------
(* Queries of the validation context that both passes consume.             *)

\* spvOpcodeIsConstant.
spvOpcodeIsConstant(opcode) ==
  opcode \in {"OpConstantTrue", "OpConstantFalse", "OpConstant",
              "OpConstantComposite", "OpConstantSampler", "OpConstantNull",
              "OpConstantFunctionPointerINTEL", "OpSpecConstantTrue",
              "OpSpecConstantFalse", "OpSpecConstant",
              "OpSpecConstantComposite", "OpSpecConstantOp"}

\* spvOpcodeIsSpecConstant.
spvOpcodeIsSpecConstant(opcode) ==
  opcode \in {"OpSpecConstantTrue", "OpSpecConstantFalse", "OpSpecConstant",
              "OpSpecConstantComposite", "OpSpecConstantOp"}

\* spvOpcodeIsConstantOrUndef.
spvOpcodeIsConstantOrUndef(opcode) ==
  opcode = "OpUndef" \/ spvOpcodeIsConstant(opcode)

\* spvOpcodeIsComposite.
spvOpcodeIsComposite(opcode) ==
  opcode \in {"OpTypeVector", "OpTypeMatrix", "OpTypeArray", "OpTypeStruct",
              "OpTypeRuntimeArray", "OpTypeCooperativeMatrixNV",
              "OpTypeCooperativeMatrixKHR", "OpTypeCooperativeVectorNV"}

\* ValidationState_t::IsIntScalarType.
IsIntScalarType(id) == FindDef(id).opcode = "OpTypeInt"

\* ValidationState_t::GetBitWidth of a scalar type, 0 for anything else.
GetBitWidth(id) ==
  IF FindDef(id).opcode \in {"OpTypeInt", "OpTypeFloat"}
    THEN GetOperandAs(FindDef(id), 1)
    ELSE 0

\* ValidationState_t::GetDimension: the component count of a vector type.
GetDimension(id) ==
  IF FindDef(id).opcode = "OpTypeVector" THEN GetOperandAs(FindDef(id), 2) ELSE 0

\* ValidationState_t::IsPointerType.
IsPointerType(id) ==
  FindDef(id).opcode \in {"OpTypePointer", "OpTypeUntypedPointerKHR"}

\* ValidationState_t::EvalInt32IfConst: (is_int32, is_const, value) of a
\* defined id; a specialization constant is an int32 that is not constant.
EvalInt32IfConst(id) ==
  LET inst == FindDef(id) IN
  IF ~IsIntScalarType(inst.type_id) \/ GetBitWidth(inst.type_id) # 32
    THEN [is_int32 |-> FALSE, is_const |-> FALSE, value |-> 0]
  ELSE IF ~spvOpcodeIsConstant(inst.opcode) \/ spvOpcodeIsSpecConstant(inst.opcode)
    THEN [is_int32 |-> TRUE, is_const |-> FALSE, value |-> 0]
  ELSE IF inst.opcode = "OpConstantNull"
    THEN [is_int32 |-> TRUE, is_const |-> TRUE, value |-> 0]
  ELSE [is_int32 |-> TRUE, is_const |-> TRUE, value |-> Word(inst, 3)]

\* ValidationState_t::EvalConstantValUint64: (ok, val); not ok for an
\* undefined id, a non-integer and anything but OpConstant / OpConstantNull.
EvalConstantValUint64(id) ==
  LET inst == FindDef(id) IN
  IF inst = NullInst \/ ~IsIntScalarType(inst.type_id)
    THEN [ok |-> FALSE, val |-> 0]
  ELSE IF inst.opcode = "OpConstantNull" THEN [ok |-> TRUE, val |-> 0]
  ELSE IF inst.opcode # "OpConstant" THEN [ok |-> FALSE, val |-> 0]
  ELSE [ok |-> TRUE, val |-> Word(inst, 3)]

\* The type ids a type instruction refers to as its components.
ComponentTypeIds(inst) ==
  CASE inst.opcode \in {"OpTypeVector", "OpTypeMatrix", "OpTypeArray",
                        "OpTypeRuntimeArray", "OpTypeCooperativeMatrixNV",
                        "OpTypeCooperativeMatrixKHR",
                        "OpTypeCooperativeVectorNV", "OpTypeTensorARM"}
         -> {Word(inst, 2)}
    [] inst.opcode = "OpTypePointer" -> {Word(inst, 3)}
    [] inst.opcode \in {"OpTypeStruct", "OpTypeFunction"}
         -> {Word(inst, i) : i \in 2..(WordsSize(inst) - 1)}
    [] OTHER -> {}

\* ValidationState_t::ContainsLimitedUseIntOrFloatType: the type is, or
\* recursively contains, an 8- or 16-bit integer or float whose enabling
\* capability (Int8, Int16, Float16) is not declared.
RECURSIVE ContainsLimitedUseIntOrFloatType(_)
ContainsLimitedUseIntOrFloatType(id) ==
  LET inst == FindDef(id) IN
  \/ inst.opcode = "OpTypeInt" /\ GetBitWidth(id) = 8 /\ ~HasCapability("Int8")
  \/ inst.opcode = "OpTypeInt" /\ GetBitWidth(id) = 16 /\ ~HasCapability("Int16")
  \/ inst.opcode = "OpTypeFloat" /\ GetBitWidth(id) = 16 /\ ~HasCapability("Float16")
  \/ \E c \in ComponentTypeIds(inst) : ContainsLimitedUseIntOrFloatType(c)

\* ValidationState_t::LogicallyMatch(lhs, rhs, check_decorations = true):
\* same kind of type, the decorations of rhs among those of lhs, and the
\* components pairwise equal in id or themselves logically matching.
RECURSIVE LogicallyMatch(_, _)
LogicallyMatch(lhs, rhs) ==
  /\ lhs # NullInst
  /\ rhs # NullInst
  /\ lhs.opcode = rhs.opcode
  /\ id_decorations(rhs.id) \subseteq id_decorations(lhs.id)
  /\ CASE lhs.opcode = "OpTypePointer" ->
            \/ GetOperandAs(lhs, 2) = GetOperandAs(rhs, 2)
            \/ LogicallyMatch(FindDef(GetOperandAs(lhs, 2)),
                              FindDef(GetOperandAs(rhs, 2)))
       [] lhs.opcode = "OpTypeArray" ->
            /\ GetOperandAs(lhs, 2) = GetOperandAs(rhs, 2)
            /\ \/ GetOperandAs(lhs, 1) = GetOperandAs(rhs, 1)
               \/ LogicallyMatch(FindDef(GetOperandAs(lhs, 1)),
                                 FindDef(GetOperandAs(rhs, 1)))
       [] lhs.opcode = "OpTypeStruct" ->
            /\ OperandsSize(lhs) = OperandsSize(rhs)
            /\ \A i \in 1..(OperandsSize(lhs) - 1) :
                  \/ GetOperandAs(lhs, i) = GetOperandAs(rhs, i)
                  \/ LogicallyMatch(FindDef(GetOperandAs(lhs, i)),
                                    FindDef(GetOperandAs(rhs, i)))
       [] OTHER -> FALSE

-----------------------------------------------------------------------------
(* validate_constants.cpp                                                  *)

Min(S) == CHOOSE x \in S : \A y \in S : x <= y

\* The loops "for (constituent_index = 2; constituent_index <
\* inst->operands().size(); constituent_index++)": check[i] is the answer
\* of the body for index i; the loop returns that of the first index whose
\* check does not pass, success when every index passes.
ForEachConstituent(inst, check) ==
  LET failing == {i \in 2..(OperandsSize(inst) - 1) : check[i].code # SPV_SUCCESS}
  IN IF failing = {} THEN Success ELSE check[Min(failing)]

isCompositeType(inst) ==
  LET is_tensor == inst.opcode = "OpTypeTensorARM"
      tensor_is_shaped == WordsSize(inst) = 5
  IN spvOpcodeIsComposite(inst.opcode) \/ (is_tensor /\ tensor_is_shaped)

constituent_count(inst) == WordsSize(inst) - 3

\* The test every constituent loop starts with.
NotConstantOrUndef(inst, constituent_id) ==
  LET constituent == FindDef(constituent_id) IN
  IF constituent = NullInst \/ ~spvOpcodeIsConstantOrUndef(constituent.opcode)
    THEN Diag(SPV_ERROR_INVALID_ID, inst, "is not a constant or undef",
              <<constituent_id>>)
    ELSE Success

VectorCountMismatch(inst, result_type) ==
  LET eval == IF result_type.opcode = "OpTypeCooperativeVectorNV"
                THEN EvalInt32IfConst(GetOperandAs(result_type, 2))
                ELSE [is_int32 |-> TRUE, is_const |-> TRUE,
                      value |-> GetDimension(result_type.id)]
  IN eval.is_const /\ eval.value # constituent_count(inst)

ValidateCompositeVector(inst, result_type) ==
  LET component_type == FindDef(GetOperandAs(result_type, 1))
      Check(constituent_index) ==
        LET constituent_id == GetOperandAs(inst, constituent_index)
            constituent == FindDef(constituent_id)
            constituent_result_type == FindDef(constituent.type_id)
        IN IF NotConstantOrUndef(inst, constituent_id) # Success
             THEN NotConstantOrUndef(inst, constituent_id)
           ELSE IF \/ constituent_result_type = NullInst
                   \/ component_type.id # constituent_result_type.id
             THEN Diag(SPV_ERROR_INVALID_ID, inst,
                       "type does not match vector element type",
                       <<constituent_id, result_type.id>>)
           ELSE Success
  IN IF VectorCountMismatch(inst, result_type)
       THEN Diag(SPV_ERROR_INVALID_ID, inst,
                 "count does not match vector component count",
                 <<result_type.id>>)
     ELSE IF component_type = NullInst
       THEN Diag(SPV_ERROR_INVALID_ID, result_type,
                 "Component type is not defined.", <<>>)
     ELSE ForEachConstituent(inst,
            [i \in 2..(OperandsSize(inst) - 1) |-> Check(i)])

MatrixCountMismatch(inst, result_type) ==
  GetOperandAs(result_type, 2) # constituent_count(inst)

ValidateCompositeMatrix(inst, result_type) ==
  LET column_type == FindDef(Word(result_type, 2))
      component_type == FindDef(GetOperandAs(column_type, 1))
      Check(constituent_index) ==
        LET constituent_id == GetOperandAs(inst, constituent_index)
            constituent == FindDef(constituent_id)
            vector == FindDef(constituent.type_id)
            vector_component_type == FindDef(GetOperandAs(vector, 1))
        IN IF NotConstantOrUndef(inst, constituent_id) # Success
             THEN NotConstantOrUndef(inst, constituent_id)
           ELSE IF vector = NullInst
             THEN Diag(SPV_ERROR_INVALID_ID, constituent,
                       "Result type is not defined.", <<>>)
           ELSE IF column_type.opcode # vector.opcode
             THEN Diag(SPV_ERROR_INVALID_ID, inst,
                       "type does not match matrix column type",
                       <<constituent_id, result_type.id>>)
           ELSE IF vector_component_type = NullInst
             \* vector_component_type->id() through a null pointer
             THEN Undefined(Diag(SPV_ERROR_INVALID_ID, inst,
                       "component type does not match matrix column component type",
                       <<constituent_id, result_type.id>>))
           ELSE IF component_type.id # vector_component_type.id
             THEN Diag(SPV_ERROR_INVALID_ID, inst,
                       "component type does not match matrix column component type",
                       <<constituent_id, result_type.id>>)
           ELSE IF GetOperandAs(column_type, 2) # Word(vector, 3)
             THEN Diag(SPV_ERROR_INVALID_ID, inst,
                       "vector component count does not match",
                       <<constituent_id, result_type.id>>)
           ELSE Success
  IN IF MatrixCountMismatch(inst, result_type)
       THEN Diag(SPV_ERROR_INVALID_ID, inst,
                 "count does not match matrix column count",
                 <<result_type.id>>)
     ELSE IF column_type = NullInst
       THEN Diag(SPV_ERROR_INVALID_ID, result_type,
                 "Column type is not defined.", <<>>)
     ELSE IF component_type = NullInst
       THEN Diag(SPV_ERROR_INVALID_ID, column_type,
                 "Component type is not defined.", <<>>)
     ELSE ForEachConstituent(inst,
            [i \in 2..(OperandsSize(inst) - 1) |-> Check(i)])

\* Faulty variants of the length test: one that never finds a mismatch, one
\* that compares the count with the default value of a specialization
\* constant.
ArrayCountNeverMismatches(inst, length) == FALSE

ArrayCountOfSpecConstant(inst, length) ==
  LET eval == EvalInt32IfConst(length.id)
  IN eval.is_int32 /\ eval.value # constituent_count(inst)

ArrayCountMismatch(inst, length) ==
  LET eval == EvalInt32IfConst(length.id)
  IN eval.is_int32 /\ eval.is_const /\ eval.value # constituent_count(inst)

ValidateCompositeArray(inst, result_type) ==
  LET element_type == FindDef(GetOperandAs(result_type, 1))
      length == FindDef(GetOperandAs(result_type, 2))
      Check(constituent_index) ==
        LET constituent_id == GetOperandAs(inst, constituent_index)
            constituent == FindDef(constituent_id)
            constituent_type == FindDef(constituent.type_id)
        IN IF NotConstantOrUndef(inst, constituent_id) # Success
             THEN NotConstantOrUndef(inst, constituent_id)
           ELSE IF constituent_type = NullInst
             THEN Diag(SPV_ERROR_INVALID_ID, constituent,
                       "Result type is not defined.", <<>>)
           ELSE IF element_type.id # constituent_type.id
             THEN Diag(SPV_ERROR_INVALID_ID, inst,
                       "type does not match array element type",
                       <<constituent_id, result_type.id>>)
           ELSE Success
  IN IF element_type = NullInst
       THEN Diag(SPV_ERROR_INVALID_ID, result_type,
                 "Element type is not defined.", <<>>)
     ELSE IF length = NullInst
       THEN Diag(SPV_ERROR_INVALID_ID, result_type,
                 "Length is not defined.", <<>>)
     ELSE IF ArrayCountMismatch(inst, length)
       THEN Diag(SPV_ERROR_INVALID_ID, inst,
                 "count does not match array length", <<result_type.id>>)
     ELSE ForEachConstituent(inst,
            [i \in 2..(OperandsSize(inst) - 1) |-> Check(i)])

member_count(result_type) == WordsSize(result_type) - 2

\* A faulty variant of the member test: every constituent type passes.
MemberNeverMismatches(member_type, constituent_type) == FALSE

StructMemberMismatch(member_type, constituent_type) ==
  member_type = NullInst \/ member_type.id # constituent_type.id

ValidateCompositeStruct(inst, result_type) ==
  LET Check(constituent_index) ==
        LET member_index == constituent_index - 1
            constituent_id == GetOperandAs(inst, constituent_index)
            constituent == FindDef(constituent_id)
            constituent_type == FindDef(constituent.type_id)
            member_type_id == GetOperandAs(result_type, member_index)
            member_type == FindDef(member_type_id)
        IN IF NotConstantOrUndef(inst, constituent_id) # Success
             THEN NotConstantOrUndef(inst, constituent_id)
           ELSE IF constituent_type = NullInst
             THEN Diag(SPV_ERROR_INVALID_ID, constituent,
                       "Result type is not defined.", <<>>)
           ELSE IF StructMemberMismatch(member_type, constituent_type)
             THEN Diag(SPV_ERROR_INVALID_ID, inst,
                       "type does not match member type",
                       <<constituent_id, result_type.id>>)
           ELSE Success
  IN IF member_count(result_type) # constituent_count(inst)
       THEN Diag(SPV_ERROR_INVALID_ID, inst,
                 "count does not match struct member count",
                 <<inst.type_id, result_type.id>>)
     ELSE ForEachConstituent(inst,
            [i \in 2..(OperandsSize(inst) - 1) |-> Check(i)])

ValidateCompositeCooperativeMatrix(inst, result_type) ==
  LET constituent_id == GetOperandAs(inst, 2)
      constituent == FindDef(constituent_id)
      constituent_type == FindDef(constituent.type_id)
      component_type_id == GetOperandAs(result_type, 1)
      component_type == FindDef(component_type_id)
  IN IF 1 # constituent_count(inst)
       THEN Diag(SPV_ERROR_INVALID_ID, inst, "count must be one",
                 <<inst.type_id>>)
     ELSE IF NotConstantOrUndef(inst, constituent_id) # Success
       THEN NotConstantOrUndef(inst, constituent_id)
     ELSE IF constituent_type = NullInst
       THEN Diag(SPV_ERROR_INVALID_ID, constituent,
                 "Result type is not defined.", <<>>)
     ELSE IF component_type = NullInst \/ component_type.id # constituent_type.id
       THEN Diag(SPV_ERROR_INVALID_ID, inst,
                 "type does not match component type",
                 <<constituent_id, result_type.id>>)
     ELSE Success

\* GetOperandAs reads operands_.at(index): past the end it does not return.
OperandInRange(inst, index) == index < OperandsSize(inst)

\* GetOperandAs with an index inst has no operand for: the exception of
\* operands_.at(index), which no handler catches.
OutOfRange(inst) == Diag(CRASH, inst, "operand index out of range", <<>>)

TensorCountMismatch(inst, inst_shape) ==
  LET outermost_shape == EvalConstantValUint64(GetOperandAs(inst_shape, 2))
  IN outermost_shape.ok /\ outermost_shape.val # constituent_count(inst)

\* The rank > 1 branch for one constituent.
TensorConstituentOfTensor(inst, result_type, inst_element_type, inst_shape, rank, constituent_index, constituent_type) ==
  LET constituent_id == GetOperandAs(inst, constituent_index)
      inst_constituent_element_type == FindDef(GetOperandAs(constituent_type, 1))
      inst_constituent_rank == FindDef(GetOperandAs(constituent_type, 2))
      constituent_rank == EvalConstantValUint64(inst_constituent_rank.id)
      inst_constituent_shape == FindDef(GetOperandAs(constituent_type, 3))
      ShapeCheck(constituent_shape_index) ==
        LET shape_index == constituent_shape_index + 1
            constituent_shape ==
              EvalConstantValUint64(
                GetOperandAs(inst_constituent_shape, constituent_shape_index))
            shape == EvalConstantValUint64(GetOperandAs(inst_shape, shape_index))
        IN IF ~constituent_shape.ok THEN Success
           ELSE IF ~OperandInRange(inst_shape, shape_index) THEN OutOfRange(inst_shape)
           ELSE IF shape.ok /\ constituent_shape.val # shape.val
             THEN Diag(SPV_ERROR_INVALID_ID, inst,
                       "must have a Shape that matches that of Result Type",
                       <<constituent_id, result_type.id>>)
           ELSE Success
  IN IF constituent_type.opcode # "OpTypeTensorARM"
       THEN Diag(SPV_ERROR_INVALID_ID, inst, "must be an OpTypeTensorARM",
                 <<constituent_id>>)
     ELSE IF \/ inst_constituent_element_type = NullInst
             \/ inst_constituent_element_type.id # inst_element_type.id
       THEN Diag(SPV_ERROR_INVALID_ID, inst,
                 "must have the same Element Type as Result Type",
                 <<constituent_id, result_type.id>>)
     ELSE IF ~OperandInRange(constituent_type, 2) THEN OutOfRange(constituent_type)
     ELSE IF /\ inst_constituent_rank # NullInst
             /\ constituent_rank.ok
             /\ constituent_rank.val # rank - 1
       THEN Diag(SPV_ERROR_INVALID_ID, inst,
                 "must have a Rank that is 1 less than the Rank of Result Type",
                 <<constituent_id, result_type.id>>)
     ELSE IF ~OperandInRange(constituent_type, 3) THEN OutOfRange(constituent_type)
     ELSE IF inst_constituent_shape = NullInst
       THEN Diag(SPV_ERROR_INVALID_ID, result_type,
                 "Shape of Constituent is not defined.",
                 <<ToString(constituent_index - 2)>>)
     ELSE ForEachConstituent(inst_constituent_shape,
            [i \in 2..(OperandsSize(inst_constituent_shape) - 1) |-> ShapeCheck(i)])

ValidateCompositeTensor(inst, result_type) ==
  LET inst_element_type == FindDef(GetOperandAs(result_type, 1))
      inst_rank == FindDef(GetOperandAs(result_type, 2))
      inst_shape == FindDef(GetOperandAs(result_type, 3))
      rank == IF EvalConstantValUint64(inst_rank.id).ok
                THEN EvalConstantValUint64(inst_rank.id).val
                ELSE 0
      Check(constituent_index) ==
        LET constituent_id == GetOperandAs(inst, constituent_index)
            constituent == FindDef(constituent_id)
            constituent_type == FindDef(constituent.type_id)
        IN IF NotConstantOrUndef(inst, constituent_id) # Success
             THEN NotConstantOrUndef(inst, constituent_id)
           ELSE IF constituent_type = NullInst
             THEN Diag(SPV_ERROR_INVALID_ID, constituent,
                       "Type of Constituent is not defined.",
                       <<ToString(constituent_index - 2)>>)
           ELSE IF rank = 0 THEN Success
           ELSE IF rank = 1
             THEN IF inst_element_type.id # constituent_type.id
                    THEN Diag(SPV_ERROR_INVALID_ID, inst,
                              "type does not match the element type of the tensor",
                              <<constituent_id, result_type.id>>)
                    ELSE Success
           ELSE TensorConstituentOfTensor(inst, result_type, inst_element_type,
                                          inst_shape, rank, constituent_index,
                                          constituent_type)
  IN IF inst_element_type = NullInst
       THEN Diag(SPV_ERROR_INVALID_ID, result_type,
                 "Element type is not defined.", <<>>)
     ELSE IF inst_rank = NullInst
       THEN Diag(SPV_ERROR_INVALID_ID, result_type, "Rank is not defined.", <<>>)
     ELSE IF inst_shape = NullInst
       THEN Diag(SPV_ERROR_INVALID_ID, result_type, "Shape is not defined.", <<>>)
     ELSE IF ~OperandInRange(inst_shape, 2) THEN OutOfRange(inst_shape)
     ELSE IF TensorCountMismatch(inst, inst_shape)
       THEN Diag(SPV_ERROR_INVALID_ID, inst,
                 "count does not match the shape along its outermost dimension",
                 <<result_type.id>>)
     ELSE ForEachConstituent(inst,
            [i \in 2..(OperandsSize(inst) - 1) |-> Check(i)])

ValidateConstantComposite(inst) ==
  LET result_type == FindDef(inst.type_id) IN
  IF result_type = NullInst \/ ~isCompositeType(result_type)
    THEN Diag(SPV_ERROR_INVALID_ID, inst, "is not a composite type",
              <<inst.type_id>>)
  ELSE CASE result_type.opcode \in {"OpTypeVector", "OpTypeCooperativeVectorNV"}
              -> ValidateCompositeVector(inst, result_type)
         [] result_type.opcode = "OpTypeMatrix"
              -> ValidateCompositeMatrix(inst, result_type)
         [] result_type.opcode = "OpTypeArray"
              -> ValidateCompositeArray(inst, result_type)
         [] result_type.opcode = "OpTypeStruct"
              -> ValidateCompositeStruct(inst, result_type)
         [] result_type.opcode \in {"OpTypeCooperativeMatrixKHR",
                                    "OpTypeCooperativeMatrixNV"}
              -> ValidateCompositeCooperativeMatrix(inst, result_type)
         [] result_type.opcode = "OpTypeTensorARM"
              -> ValidateCompositeTensor(inst, result_type)
         [] OTHER -> Success

\* A faulty variant of the scalar list: samplers added.
NullableScalarOpcodesAndSampler ==
  {"OpTypeBool", "OpTypeInt", "OpTypeFloat", "OpTypeEvent", "OpTypeDeviceEvent",
   "OpTypeReserveId", "OpTypeQueue", "OpTypeSampler"}

\* The opcodes nullable on their own.
NullableScalarOpcodes ==
  {"OpTypeBool", "OpTypeInt", "OpTypeFloat", "OpTypeEvent", "OpTypeDeviceEvent",
   "OpTypeReserveId", "OpTypeQueue"}

\* The opcodes nullable when their base type (instruction[2]) is.
NullableByBaseOpcodes ==
  {"OpTypeArray", "OpTypeMatrix", "OpTypeCooperativeMatrixNV",
   "OpTypeCooperativeMatrixKHR", "OpTypeCooperativeVectorNV", "OpTypeVector"}

\* A faulty variant of the pointer case: every pointer is nullable.
PointerAlwaysNullable(instruction) == TRUE

\* The pointer case: decided by the storage class word alone.
PointerIsNullable(instruction) ==
  IF instruction[3] = "PhysicalStorageBuffer" THEN FALSE ELSE TRUE

\* instruction is the word vector of a type; instruction[i] of the C++ is
\* instruction[i + 1] here.
RECURSIVE IsTypeNullable(_)
IsTypeNullable(instruction) ==
  LET opcode == instruction[1] IN
  CASE opcode \in NullableScalarOpcodes -> TRUE
    [] opcode \in NullableByBaseOpcodes ->
         LET base_type == FindDef(instruction[3])
         IN base_type # NullInst /\ IsTypeNullable(base_type.words)
    [] opcode = "OpTypeStruct" ->
         \A elementIndex \in 2..(Len(instruction) - 1) :
            LET element == FindDef(instruction[elementIndex + 1])
            IN element # NullInst /\ IsTypeNullable(element.words)
    [] opcode \in {"OpTypeUntypedPointerKHR", "OpTypePointer"} ->
         PointerIsNullable(instruction)
    [] opcode = "OpTypeTensorARM" ->
         LET elem_type == FindDef(instruction[3])
         IN Len(instruction) > 4 /\ elem_type # NullInst
            /\ IsTypeNullable(elem_type.words)
    [] OTHER -> FALSE

ValidateConstantNull(inst) ==
  LET result_type == FindDef(inst.type_id) IN
  IF result_type = NullInst \/ ~IsTypeNullable(result_type.words)
    THEN Diag(SPV_ERROR_INVALID_ID, inst, "cannot have a null value",
              <<inst.type_id>>)
    ELSE Success

\* IsTypeNullable one activation at a time.  An activation holds the words
\* it was called with and the position of the loop over the members of a
\* struct.
Frame(instruction) == [instruction |-> instruction, elementIndex |-> 2]

\* The type the activation goes on to: the base type, the member the loop
\* stands at, the element type of a shaped tensor; null when it goes on to
\* none.
NextType(frame) ==
  LET instruction == frame.instruction
      opcode == instruction[1]
  IN CASE opcode \in NullableByBaseOpcodes -> FindDef(instruction[3])
       [] opcode = "OpTypeStruct" ->
            IF frame.elementIndex < Len(instruction)
              THEN FindDef(instruction[frame.elementIndex + 1])
              ELSE NullInst
       [] opcode = "OpTypeTensorARM" ->
            IF Len(instruction) > 4 THEN FindDef(instruction[3]) ELSE NullInst
       [] OTHER -> NullInst

\* The activation calls IsTypeNullable on the type it goes on to.
Recurses(frame) == NextType(frame) # NullInst

\* What the activation returns when it does not call.
ReturnValue(frame) ==
  LET instruction == frame.instruction
      opcode == instruction[1]
  IN CASE opcode \in NullableScalarOpcodes -> TRUE
       [] opcode = "OpTypeStruct" -> frame.elementIndex >= Len(instruction)
       [] opcode \in {"OpTypeUntypedPointerKHR", "OpTypePointer"} ->
            PointerIsNullable(instruction)
       [] OTHER -> FALSE

\* The call of a base type or of a tensor element is the last thing its
\* activation does; the call of a struct member is inside the loop.
InTailPosition(frame) == frame.instruction[1] # "OpTypeStruct"

\* value is returned to the activations in frames, innermost last: a struct
\* told TRUE moves to its next member, every other caller returns what it
\* was told.
RECURSIVE Unwind(_, _)
Unwind(frames, value) ==
  IF frames = <<>> THEN [stack |-> <<>>, returned |-> TRUE, value |-> value]
  ELSE LET caller == frames[Len(frames)] IN
       IF caller.instruction[1] = "OpTypeStruct" /\ value
         THEN [stack |-> [frames EXCEPT ![Len(frames)].elementIndex = @ + 1],
               returned |-> FALSE, value |-> value]
         ELSE Unwind(SubSeq(frames, 1, Len(frames) - 1), value)

\* ValidateConstantNull once IsTypeNullable has returned nullable.
ConstantNullAnswer(inst, nullable) ==
  IF ~nullable
    THEN Diag(SPV_ERROR_INVALID_ID, inst, "cannot have a null value",
              <<inst.type_id>>)
    ELSE Success

ValidateConstantBool(inst) ==
  LET type == FindDef(inst.type_id) IN
  IF type = NullInst \/ type.opcode # "OpTypeBool"
    THEN Diag(SPV_ERROR_INVALID_ID, inst, "is not a boolean type",
              <<inst.type_id>>)
    ELSE Success

ValidateConstantSampler(inst) ==
  LET result_type == FindDef(inst.type_id) IN
  IF result_type = NullInst \/ result_type.opcode # "OpTypeSampler"
    THEN Diag(SPV_ERROR_INVALID_ID, result_type, "is not a sampler type",
              <<inst.type_id>>)
    ELSE Success

ValidateSpecConstant(inst) ==
  LET type_id == GetOperandAs(inst, 0)
      type_instruction == FindDef(type_id)
      not_a_number ==
        Diag(SPV_ERROR_INVALID_DATA, inst,
             "Specialization constant must be an integer or floating-point number.",
             <<>>)
  IN IF type_instruction = NullInst
       \* type_instruction->opcode() through a null pointer
       THEN UndefinedAmong(not_a_number, {not_a_number, Success})
     ELSE IF type_instruction.opcode \notin {"OpTypeInt", "OpTypeFloat"}
       THEN not_a_number
     ELSE Success

\* A faulty variant of the list: the float arithmetic left out.
KernelSpecConstantOpsWithoutArithmetic ==
  {"OpConvertFToS", "OpConvertSToF", "OpConvertFToU", "OpConvertUToF",
   "OpConvertPtrToU", "OpConvertUToPtr", "OpGenericCastToPtr",
   "OpPtrCastToGeneric", "OpBitcast", "OpAccessChain",
   "OpInBoundsAccessChain", "OpPtrAccessChain", "OpInBoundsPtrAccessChain"}

\* The embedded opcodes of OpSpecConstantOp that ask for Kernel.
KernelSpecConstantOps ==
  {"OpConvertFToS", "OpConvertSToF", "OpConvertFToU", "OpConvertUToF",
   "OpConvertPtrToU", "OpConvertUToPtr", "OpGenericCastToPtr",
   "OpPtrCastToGeneric", "OpBitcast", "OpFNegate", "OpFAdd", "OpFSub",
   "OpFMul", "OpFDiv", "OpFRem", "OpFMod", "OpAccessChain",
   "OpInBoundsAccessChain", "OpPtrAccessChain", "OpInBoundsPtrAccessChain"}

ValidateSpecConstantOp(inst) ==
  LET op == GetOperandAs(inst, 2) IN
  CASE op = "OpQuantizeToF16" ->
         IF ~HasCapability("Shader")
           THEN Diag(SPV_ERROR_INVALID_ID, inst, "requires Shader capability",
                     <<>>)
           ELSE Success
    [] op = "OpUConvert" ->
         IF ~uconvert_spec_constant_op /\ ~HasCapability("Kernel")
           THEN Diag(SPV_ERROR_INVALID_ID, inst,
                     "UConvert requires Kernel capability or extension SPV_AMD_gpu_shader_int16",
                     <<>>)
           ELSE Success
    [] op \in KernelSpecConstantOps ->
         IF ~HasCapability("Kernel")
           THEN Diag(SPV_ERROR_INVALID_ID, inst, "requires Kernel capability",
                     <<>>)
           ELSE Success
    [] OTHER -> Success

\* A faulty variant of the first test: the capability is never asked for.
FunctionPointersNeverRequired == FALSE

RequiresFunctionPointers == ~HasCapability("FunctionPointersINTEL")

\* A faulty variant of the last test: any OpFunction passes.
FunctionTypeAlwaysMatches(function_inst, pointee_type) == FALSE

FunctionTypeMismatch(function_inst, pointee_type) ==
  GetOperandAs(function_inst, 3) # pointee_type.id

ValidateConstantFunctionPointerINTEL(inst) ==
  LET result_type == FindDef(inst.type_id)
      pointee_type == FindDef(GetOperandAs(result_type, 2))
      function_id == GetOperandAs(inst, 2)
      function_inst == FindDef(function_id)
  IN IF RequiresFunctionPointers
       THEN Diag(SPV_ERROR_INVALID_CAPABILITY, inst,
                 "requires FunctionPointersINTEL capability", <<>>)
     ELSE IF result_type = NullInst \/ result_type.opcode # "OpTypePointer"
       THEN Diag(SPV_ERROR_INVALID_ID, inst, "is not a pointer type",
                 <<inst.type_id>>)
     ELSE IF pointee_type = NullInst \/ pointee_type.opcode # "OpTypeFunction"
       THEN Diag(SPV_ERROR_INVALID_ID, inst,
                 "must be a pointer to function type", <<inst.type_id>>)
     ELSE IF function_inst = NullInst THEN Success
     ELSE IF function_inst.opcode # "OpFunction"
       THEN Diag(SPV_ERROR_INVALID_ID, inst, "is not an OpFunction",
                 <<function_id>>)
     ELSE IF FunctionTypeMismatch(function_inst, pointee_type)
       THEN Diag(SPV_ERROR_INVALID_ID, inst,
                 "type does not match the pointer's function type",
                 <<function_id>>)
     ELSE Success

\* A faulty variant of the rule: pointer types are not exempt.
LimitedUseConstantOrPointer(inst) ==
  /\ spvOpcodeIsConstant(inst.opcode)
  /\ HasCapability("Shader")
  /\ ContainsLimitedUseIntOrFloatType(inst.type_id)

\* The rule after the switch of ConstantPass.
LimitedUseConstant(inst) ==
  /\ spvOpcodeIsConstant(inst.opcode)
  /\ HasCapability("Shader")
  /\ ~IsPointerType(inst.type_id)
  /\ ContainsLimitedUseIntOrFloatType(inst.type_id)

\* ConstantPass, given what the family handler of the opcode returned.
ConstantPass(inst, error) ==
  IF error # Success THEN error
  ELSE IF LimitedUseConstant(inst)
    THEN Diag(SPV_ERROR_INVALID_ID, inst,
              "Cannot form constants of 8- or 16-bit types", <<>>)
  ELSE Success

-----------------------------------------------------------------------------
(* validate_function.cpp                                                   *)

\* _.ordered_instructions()[inst_num], inst_num counted from 0.
InstructionAt(inst_num) == ordered_instructions[inst_num + 1]

\* A faulty variant: the decorations of the two pointer types are not
\* compared.
DoPointeesLogicallyMatchWithoutDecorations(a, b) ==
  IF a.opcode # "OpTypePointer" \/ b.opcode # "OpTypePointer" THEN FALSE
  ELSE IF GetOperandAs(a, 2) = GetOperandAs(b, 2) THEN TRUE
  ELSE LogicallyMatch(FindDef(GetOperandAs(a, 2)), FindDef(GetOperandAs(b, 2)))

DoPointeesLogicallyMatch(a, b) ==
  IF a.opcode # "OpTypePointer" \/ b.opcode # "OpTypePointer" THEN FALSE
  ELSE IF ~(id_decorations(b.id) \subseteq id_decorations(a.id)) THEN FALSE
  ELSE IF GetOperandAs(a, 2) = GetOperandAs(b, 2) THEN TRUE
  ELSE LogicallyMatch(FindDef(GetOperandAs(a, 2)), FindDef(GetOperandAs(b, 2)))

\* A faulty variant of the loop: the parameters passed on the way are not
\* counted.
RECURSIVE ScanForFunctionWithoutCounting(_, _, _)
ScanForFunctionWithoutCounting(inst_num, func_inst, param_index) ==
  LET next_num == inst_num - 1 IN
  IF next_num = 0
    THEN [func_inst |-> func_inst, param_index |-> param_index]
  ELSE IF InstructionAt(next_num).opcode = "OpFunction"
    THEN [func_inst |-> InstructionAt(next_num), param_index |-> param_index]
  ELSE ScanForFunctionWithoutCounting(next_num, InstructionAt(next_num),
                                      param_index)

\* The loop "while (--inst_num)": [func_inst, param_index] when it ends.
RECURSIVE ScanForFunction(_, _, _)
ScanForFunction(inst_num, func_inst, param_index) ==
  LET next_num == inst_num - 1 IN
  IF next_num = 0
    THEN [func_inst |-> func_inst, param_index |-> param_index]
  ELSE IF InstructionAt(next_num).opcode = "OpFunction"
    THEN [func_inst |-> InstructionAt(next_num), param_index |-> param_index]
  ELSE IF InstructionAt(next_num).opcode = "OpFunctionParameter"
    THEN ScanForFunction(next_num, InstructionAt(next_num), param_index + 1)
  ELSE ScanForFunction(next_num, InstructionAt(next_num), param_index)

\* line_num is inst->LineNum(), the position of inst counted from 1.
ValidateFunctionParameter(inst, line_num) ==
  LET inst_num == line_num - 1
      scan == ScanForFunction(inst_num, InstructionAt(inst_num), 0)
      func_inst == scan.func_inst
      param_index == scan.param_index
      function_type_id == GetOperandAs(func_inst, 3)
      function_type == FindDef(function_type_id)
      param_type == FindDef(GetOperandAs(function_type, param_index + 2))
  IN IF inst_num = 0
       THEN Diag(SPV_ERROR_INVALID_LAYOUT, inst,
                 "Function parameter cannot be the first instruction.", <<>>)
     ELSE IF func_inst.opcode # "OpFunction"
       THEN Diag(SPV_ERROR_INVALID_LAYOUT, inst,
                 "Function parameter must be preceded by a function.", <<>>)
     ELSE IF function_type = NullInst
       THEN Diag(SPV_ERROR_INVALID_ID, func_inst,
                 "Missing function type definition.", <<>>)
     ELSE IF param_index >= WordsSize(function_type) - 3
       THEN Diag(SPV_ERROR_INVALID_ID, inst, "Too many OpFunctionParameters",
                 <<>>)
     ELSE IF param_type = NullInst \/ inst.type_id # param_type.id
       THEN Diag(SPV_ERROR_INVALID_ID, inst,
                 "does not match the OpTypeFunction parameter type of the same index",
                 <<inst.type_id>>)
     ELSE Success

\* The loop over the arguments of a call: argument_index from 3.
ForEachArgument(inst, check) ==
  LET failing == {i \in 3..(OperandsSize(inst) - 1) : check[i].code # SPV_SUCCESS}
  IN IF failing = {} THEN Success ELSE check[Min(failing)]

function_call_arg_count(inst) == WordsSize(inst) - 4
function_param_count(function_type) == WordsSize(function_type) - 3

\* The test that rejects an argument for its type.
ArgumentTypeRejected(argument_type, parameter_type) ==
  /\ parameter_type = NullInst \/ argument_type.id # parameter_type.id
  /\ \/ parameter_type = NullInst
     \/ ~before_hlsl_legalization
     \/ ~DoPointeesLogicallyMatch(argument_type, parameter_type)

\* A faulty variant of the switch: every storage class passes.
AnyStorageClass(sc, inst, argument_id) == Success

\* The switch over the storage class of a pointer parameter.
StorageClassCheck(sc, inst, argument_id) ==
  CASE sc \in {"UniformConstant", "Function", "Private", "Workgroup",
               "AtomicCounter"} -> Success
    [] sc = "StorageBuffer" ->
         IF ~features_variable_pointers
           THEN Diag(SPV_ERROR_INVALID_ID, inst,
                     "StorageBuffer pointer operand requires a variable pointers capability",
                     <<argument_id>>)
           ELSE Success
    [] OTHER -> Diag(SPV_ERROR_INVALID_ID, inst,
                     "Invalid storage class for pointer operand",
                     <<argument_id>>)

\* Whether the storage-class and memory-object rules apply to a parameter.
PointerRulesApply(parameter_type) ==
  /\ addressing_model = "Logical"
  /\ parameter_type.opcode \in {"OpTypePointer", "OpTypeUntypedPointerKHR"}
  /\ ~relax_logical_pointer

IsMemoryObjectDeclaration(argument) ==
  argument.opcode \in {"OpVariable", "OpUntypedVariableKHR", "OpFunctionParameter"}

\* A faulty variant of the requirement: every argument passes.
AnyArgument(sc, inst, argument, argument_id) == Success

\* The memory object declaration requirement on a pointer argument.
MemoryObjectCheck(sc, inst, argument, argument_id) ==
  IF ~IsMemoryObjectDeclaration(argument)
    THEN LET ssbo_vptr == HasCapability("VariablePointersStorageBuffer")
                          /\ sc = "StorageBuffer"
             wg_vptr == HasCapability("VariablePointers") /\ sc = "Workgroup"
             uc_ptr == sc = "UniformConstant"
         IN IF ~before_hlsl_legalization /\ ~ssbo_vptr /\ ~wg_vptr /\ ~uc_ptr
              THEN Diag(SPV_ERROR_INVALID_ID, inst,
                        "must be a memory object declaration", <<argument_id>>)
              ELSE Success
    ELSE Success

\* One iteration of the loop over the arguments.
ValidateArgument(inst, function_type, argument_index) ==
  LET param_index == argument_index - 1
      argument_id == GetOperandAs(inst, argument_index)
      argument == FindDef(argument_id)
      argument_type == FindDef(argument.type_id)
      parameter_type_id == GetOperandAs(function_type, param_index)
      parameter_type == FindDef(parameter_type_id)
      sc == GetOperandAs(parameter_type, 1)
  IN IF argument = NullInst
       THEN Diag(SPV_ERROR_INVALID_ID, inst, "Missing argument definition.", <<>>)
     ELSE IF argument_type = NullInst
       THEN Diag(SPV_ERROR_INVALID_ID, inst,
                 "Missing argument type definition.", <<>>)
     ELSE IF ArgumentTypeRejected(argument_type, parameter_type)
       THEN Diag(SPV_ERROR_INVALID_ID, inst,
                 "type does not match parameter type",
                 <<argument_id, parameter_type_id>>)
     ELSE IF PointerRulesApply(parameter_type)
       THEN IF StorageClassCheck(sc, inst, argument_id) # Success
              THEN StorageClassCheck(sc, inst, argument_id)
              ELSE MemoryObjectCheck(sc, inst, argument, argument_id)
     ELSE Success

ValidateFunctionCall(inst) ==
  LET function_id == GetOperandAs(inst, 2)
      function == FindDef(function_id)
      return_type == FindDef(function.type_id)
      function_type_id == GetOperandAs(function, 3)
      function_type == FindDef(function_type_id)
      Check(argument_index) == ValidateArgument(inst, function_type, argument_index)
  IN IF function = NullInst \/ function.opcode # "OpFunction"
       THEN Diag(SPV_ERROR_INVALID_ID, inst, "is not a function", <<function_id>>)
     ELSE IF return_type = NullInst
       \* the message prints return_type->id() through the null pointer
       THEN Undefined(Diag(SPV_ERROR_INVALID_ID, inst,
                 "type does not match return type", <<inst.type_id, NoId>>))
     ELSE IF return_type.id # inst.type_id
       THEN Diag(SPV_ERROR_INVALID_ID, inst,
                 "type does not match return type",
                 <<inst.type_id, return_type.id>>)
     ELSE IF function_type = NullInst \/ function_type.opcode # "OpTypeFunction"
       THEN Diag(SPV_ERROR_INVALID_ID, inst,
                 "Missing function type definition.", <<>>)
     ELSE IF function_param_count(function_type) # function_call_arg_count(inst)
       THEN Diag(SPV_ERROR_INVALID_ID, inst,
                 "parameter count does not match the argument count", <<>>)
     ELSE ForEachArgument(inst, [i \in 3..(OperandsSize(inst) - 1) |-> Check(i)])

\* ValidationState_t::IsCooperativeMatrixKHRType.
IsCooperativeMatrixKHRType(id) ==
  FindDef(id).opcode = "OpTypeCooperativeMatrixKHR"

ValidateCooperativeMatrixPerElementOp(inst) ==
  LET function_id == GetOperandAs(inst, 3)
      function == FindDef(function_id)
      matrix_id == GetOperandAs(inst, 2)
      matrix == FindDef(matrix_id)
      matrix_type_id == matrix.type_id
      result_type_id == GetOperandAs(inst, 0)
      matrix_comp_type_id == GetOperandAs(FindDef(matrix_type_id), 1)
      function_type_id == GetOperandAs(function, 3)
      function_type == FindDef(function_type_id)
      return_type_id == GetOperandAs(function_type, 1)
      param0_id == GetOperandAs(function_type, 2)
      param1_id == GetOperandAs(function_type, 3)
      param2_id == GetOperandAs(function_type, 4)
      not_a_matrix ==
        Diag(SPV_ERROR_INVALID_ID, inst, "is not a cooperative matrix.",
             <<matrix_id>>)
      too_few ==
        Diag(SPV_ERROR_INVALID_ID, inst, "must have a least three parameters.",
             <<function_type_id>>)
  IN IF function = NullInst \/ function.opcode # "OpFunction"
       THEN Diag(SPV_ERROR_INVALID_ID, inst, "is not a function.",
                 <<function_id>>)
     ELSE IF matrix = NullInst
       \* matrix->type_id() through a null pointer
       THEN Undefined(not_a_matrix)
     ELSE IF ~IsCooperativeMatrixKHRType(matrix_type_id) THEN not_a_matrix
     ELSE IF matrix_type_id # result_type_id
       THEN Diag(SPV_ERROR_INVALID_ID, inst, "must match matrix type",
                 <<result_type_id, matrix_type_id>>)
     ELSE IF function_type = NullInst
       \* function_type->GetOperandAs(1) through a null pointer
       THEN UndefinedAmong(too_few,
              {too_few,
               Diag(SPV_ERROR_INVALID_ID, inst,
                    "function return type must match matrix component type",
                    <<matrix_comp_type_id>>)})
     ELSE IF return_type_id # matrix_comp_type_id
       THEN Diag(SPV_ERROR_INVALID_ID, inst,
                 "function return type must match matrix component type",
                 <<return_type_id, matrix_comp_type_id>>)
     ELSE IF OperandsSize(function_type) < 5 THEN too_few
     ELSE IF ~IsIntScalarType(param0_id) \/ GetBitWidth(param0_id) # 32
       THEN Diag(SPV_ERROR_INVALID_ID, inst,
                 "first parameter type must be a 32-bit integer.",
                 <<param0_id>>)
     ELSE IF ~IsIntScalarType(param1_id) \/ GetBitWidth(param1_id) # 32
       THEN Diag(SPV_ERROR_INVALID_ID, inst,
                 "second parameter type must be a 32-bit integer.",
                 <<param1_id>>)
     ELSE IF param2_id # matrix_comp_type_id
       THEN Diag(SPV_ERROR_INVALID_ID, inst,
                 "third parameter type must match matrix component type.",
                 <<param2_id>>)
     ELSE Success

\* The ids of the functions of the module.
FunctionIds == {d.id : d \in {v \in ValueDefinitions : v.opcode = "OpFunction"}}

\* inst->uses() as registered for the functions of the module: the
\* instructions that use the result id of a function, in the order the
\* loop of ValidateFunction visits them.
FunctionUses(id) ==
  CASE id = "%f_void" -> <<PlainInst("OpName"), PlainInst("OpFunctionCall")>>
    [] id = "%f_if" -> <<PlainInst("OpEntryPoint"), PlainInst("OpDecorate")>>
    [] OTHER -> <<PlainInst("OpFunctionCall")>>

\* Instruction::IsNonSemantic and Instruction::IsDebugInfo, by opcode.
IsNonSemantic(use) == use.opcode = "OpExtInst.NonSemantic"
IsDebugInfo(use) == use.opcode = "OpExtInst.DebugInfo"

\* A faulty variant of the list: the function-pointer constant is on it
\* whatever the capabilities.
AcceptableUsesWithFunctionPointers ==
  {"OpGroupDecorate", "OpDecorate", "OpEnqueueKernel", "OpEntryPoint",
   "OpExecutionMode", "OpExecutionModeId", "OpFunctionCall",
   "OpGetKernelNDrangeSubGroupCount", "OpGetKernelNDrangeMaxSubGroupSize",
   "OpGetKernelWorkGroupSize", "OpGetKernelPreferredWorkGroupSizeMultiple",
   "OpGetKernelLocalSizeForSubgroupCount", "OpGetKernelMaxNumSubgroups",
   "OpName", "OpCooperativeMatrixPerElementOpNV",
   "OpCooperativeMatrixReduceNV", "OpCooperativeMatrixLoadTensorNV",
   "OpConstantFunctionPointerINTEL"}

AcceptableUses ==
  {"OpGroupDecorate", "OpDecorate", "OpEnqueueKernel", "OpEntryPoint",
   "OpExecutionMode", "OpExecutionModeId", "OpFunctionCall",
   "OpGetKernelNDrangeSubGroupCount", "OpGetKernelNDrangeMaxSubGroupSize",
   "OpGetKernelWorkGroupSize", "OpGetKernelPreferredWorkGroupSizeMultiple",
   "OpGetKernelLocalSizeForSubgroupCount", "OpGetKernelMaxNumSubgroups",
   "OpName", "OpCooperativeMatrixPerElementOpNV",
   "OpCooperativeMatrixReduceNV", "OpCooperativeMatrixLoadTensorNV"}
  \cup (IF HasCapability("FunctionPointersINTEL")
          THEN {"OpConstantFunctionPointerINTEL"} ELSE {})

ValidateFunction(inst) ==
  LET function_type_id == GetOperandAs(inst, 3)
      function_type == FindDef(function_type_id)
      return_id == GetOperandAs(function_type, 1)
      bad_uses == {k \in DOMAIN uses[inst.id] :
                     /\ uses[inst.id][k].opcode \notin AcceptableUses
                     /\ ~IsNonSemantic(uses[inst.id][k])
                     /\ ~IsDebugInfo(uses[inst.id][k])}
  IN IF function_type = NullInst \/ function_type.opcode # "OpTypeFunction"
       THEN Diag(SPV_ERROR_INVALID_ID, inst, "is not a function type",
                 <<function_type_id>>)
     ELSE IF return_id # inst.type_id
       THEN Diag(SPV_ERROR_INVALID_ID, inst,
                 "does not match the Function Type's return type",
                 <<inst.type_id, return_id>>)
     ELSE IF bad_uses # {}
       THEN Diag(SPV_ERROR_INVALID_ID, uses[inst.id][Min(bad_uses)],
                 "Invalid use of function result id", <<inst.id>>)
     ELSE Success

-----------------------------------------------------------------------------
(* The instructions and modules the passes are run on.                     *)

SeqsUpTo(S, n) == UNION {[1..k -> S] : k \in 0..n}

\* The result types composite constants are formed of.
CompositeResultTypes ==
  {"%v2float", "%v3float", "%v2half", "%v2nodef", "%mat2", "%mat_nodef",
   "%arr2", "%arrL2", "%arrS", "%arr_nolen", "%arr_noelem", "%arrS_noelem",
   "%rtarr", "%s0", "%s1", "%s2", "%s_nested", "%s_nodef", "%s_half",
   "%cmK", "%cmN", "%cv2", "%cvS", "%ten", "%tenR", "%ten1", "%ten1S",
   "%ten2", "%int", "%ptrF", "%nodef"}

\* The ids offered as constituents of a composite of a given result type.
ConstituentPool(type_id) ==
  CASE type_id \in {"%mat2", "%mat_nodef"} ->
         {"%cv2float", "%cv3float", "%cv2nodef", "%cf", "%nodef"}
    [] type_id \in {"%ten", "%tenR", "%ten1", "%ten1S", "%ten2"} ->
         {"%c1", "%cten1", "%cf", "%par_int", "%c_notype", "%undef_ten"}
    [] type_id \in {"%v2half", "%s_half"} ->
         {"%c1", "%ch", "%cf", "%nodef"}
    [] type_id \in {"%arr2", "%arrL2", "%arrS", "%arr_nolen", "%arr_noelem",
                    "%arrS_noelem", "%rtarr"} ->
         {"%c1", "%undef_int", "%par_int", "%cf", "%c_notype"}
    [] OTHER -> {"%c1", "%cf", "%par_int", "%par_float", "%nodef"}

CompositeOpcodes(type_id) ==
  IF type_id \in {"%s2", "%arrS"}
    THEN {"OpConstantComposite", "OpSpecConstantComposite"}
    ELSE {"OpConstantComposite"}

CompositeInstructions ==
  UNION {{ValueInst(op, t, "%composite", cs) :
            op \in CompositeOpcodes(t),
            cs \in SeqsUpTo(ConstituentPool(t), MaxConstituents)} :
         t \in CompositeResultTypes}

NullInstructions ==
  {ValueInst("OpConstantNull", t, "%null", <<>>) :
     t \in {d.id : d \in TypeDefinitions} \cup {"%nodef", "%c1"}}

\* The callees of the calls, and the ids offered as arguments to each.
Callees ==
  {"%f_void", "%f_int", "%f_i", "%f_if", "%f_nodef", "%f_noret", "%f_nofn",
   "%f_badfn", "%f_pF", "%f_pW", "%f_pUC", "%f_pSB", "%f_pU", "%f_pPSB",
   "%f_uSB", "%f_uU", "%f_pS", "%f_pSd", "%f_pSBb", "%c1", "%nodef"}

ArgumentPool(function_id) ==
  CASE function_id = "%f_pF" -> {"%var_F", "%ac_F", "%par_pF", "%var_W", "%nodef"}
    [] function_id = "%f_pW" -> {"%var_W", "%ac_W", "%c1"}
    [] function_id = "%f_pUC" -> {"%var_UC", "%ac_UC", "%c1"}
    [] function_id = "%f_pSB" -> {"%var_SB", "%ac_SB", "%c1"}
    [] function_id = "%f_pU" -> {"%var_U", "%c1"}
    [] function_id = "%f_pPSB" -> {"%var_PSB", "%c1"}
    [] function_id = "%f_uSB" -> {"%uvar_SB", "%uac_SB", "%var_SB"}
    [] function_id = "%f_uU" -> {"%uvar_U", "%c1"}
    [] function_id \in {"%f_pS", "%f_pSd"} ->
         {"%var_s2", "%var_s2b", "%var_s2d", "%ac_s2b", "%var_SB_s2b", "%var_F"}
    [] function_id = "%f_pSBb" -> {"%var_SB_s2b", "%var_s2b", "%var_s2"}
    [] OTHER -> {"%c1", "%cf", "%val_notype", "%nodef"}

CallResultTypes(function_id) ==
  IF function_id \in {"%f_void", "%f_int", "%f_noret"}
    THEN {"%void", "%int"} ELSE {"%void"}

CallInstructions ==
  UNION {{ValueInst("OpFunctionCall", t, "%call", <<f>> \o args) :
            t \in CallResultTypes(f),
            args \in SeqsUpTo(ArgumentPool(f), MaxArgs)} :
         f \in Callees}

\* The other constant-defining instructions the constant pass is run on.
BoolInstructions ==
  {ValueInst(op, t, "%k", <<>>) :
     op \in {"OpConstantTrue", "OpSpecConstantFalse"},
     t \in {"%bool", "%int", "%nodef"}}

SamplerInstructions ==
  {ValueInst("OpConstantSampler", t, "%k", <<"None", 0, "Nearest">>) :
     t \in {"%sampler", "%int", "%nodef"}}

SpecConstantInstructions ==
  {ValueInst("OpSpecConstant", t, "%k", <<1>>) :
     t \in {"%int", "%float", "%half", "%bool", "%nodef"}}

EmbeddedOpcodes ==
  {"OpQuantizeToF16", "OpUConvert", "OpConvertFToS", "OpConvertSToF",
   "OpConvertFToU", "OpConvertUToF", "OpConvertPtrToU", "OpConvertUToPtr",
   "OpGenericCastToPtr", "OpPtrCastToGeneric", "OpBitcast", "OpFNegate",
   "OpFAdd", "OpFSub", "OpFMul", "OpFDiv", "OpFRem", "OpFMod",
   "OpAccessChain", "OpInBoundsAccessChain", "OpPtrAccessChain",
   "OpInBoundsPtrAccessChain", "OpSConvert", "OpFConvert", "OpIAdd",
   "OpSNegate", "OpSelect", "OpCompositeExtract"}

SpecConstantOpInstructions ==
  {ValueInst("OpSpecConstantOp", t, "%k", <<op, "%c1">>) :
     op \in EmbeddedOpcodes, t \in {"%int", "%half"}}

FunctionPointerInstructions ==
  {ValueInst("OpConstantFunctionPointerINTEL", t, "%k", <<f>>) :
     t \in {"%pfn_void", "%pfn_i", "%pfn_nodef", "%ptrF", "%int", "%nodef"},
     f \in {"%f_void", "%f_i", "%f_nofn", "%c1", "%nodef"}}

\* Opcodes the switch of ConstantPass has no case for.
PlainConstantInstructions ==
  {ValueInst(op, t, "%k", <<1>>) :
     op \in {"OpConstant", "OpUndef"},
     t \in {"%int", "%half", "%float", "%long", "%nodef"}}

CompositeSamples ==
  {ValueInst("OpConstantComposite", "%v2half", "%k", <<"%ch", "%ch">>),
   ValueInst("OpConstantComposite", "%v2half", "%k", <<"%ch", "%cf">>),
   ValueInst("OpConstantComposite", "%v2float", "%k", <<"%cf", "%cf">>),
   ValueInst("OpSpecConstantComposite", "%s_half", "%k", <<"%c1", "%ch">>),
   ValueInst("OpConstantComposite", "%mat2", "%k", <<"%cv2float", "%cv2nodef">>)}

NullSamples ==
  {ValueInst("OpConstantNull", t, "%k", <<>>) :
     t \in {"%half", "%int", "%v2half", "%s_half", "%ptrF_half", "%sampler",
            "%nodef"}}

ConstantInstructions ==
  BoolInstructions \cup SamplerInstructions \cup SpecConstantInstructions
    \cup SpecConstantOpInstructions \cup FunctionPointerInstructions
    \cup PlainConstantInstructions \cup CompositeSamples \cup NullSamples

\* The instructions of the modules that are walked from their first
\* instruction through both passes.
PerElementInstructions ==
  {ValueInst("OpCooperativeMatrixPerElementOpNV", "%cmK", "%pe", <<m, f>>) :
     m \in {"%m_cmK", "%nodef"}, f \in {"%f_pe", "%f_nofn"}}

WalkInstructions ==
  {ValueInst("OpConstant", "%int", "%k", <<1>>),
   ValueInst("OpConstant", "%half", "%k", <<1>>),
   ValueInst("OpSpecConstant", "%nodef", "%k", <<1>>),
   ValueInst("OpSpecConstant", "%bool", "%k", <<1>>),
   ValueInst("OpConstantComposite", "%mat2", "%k", <<"%cv2float", "%cv2nodef">>),
   ValueInst("OpFunctionCall", "%void", "%call", <<"%f_noret">>),
   DefinitionTable["%f_void"], DefinitionTable["%par_int"],
   PlainInst("OpLabel")}
    \cup PerElementInstructions

WalkModules == UNION {[1..k -> WalkInstructions] : k \in 1..MaxWalkLen}

\* Calls of one argument to the callees that declare a pointer parameter.
PointerCallInstructions ==
  UNION {{ValueInst("OpFunctionCall", "%void", "%call", <<f, a>>) :
            a \in ArgumentPool(f)} :
         f \in {"%f_pF", "%f_pW", "%f_pUC", "%f_pSB", "%f_pU", "%f_pPSB",
                "%f_uSB", "%f_uU"}}

\* The instructions whose rules ask for a capability or a feature.
GatedInstructions ==
  SpecConstantOpInstructions \cup FunctionPointerInstructions
    \cup PointerCallInstructions

\* The OpFunction instructions whose uses are examined, and the opcodes
\* of the instructions that use them.
FunctionInstructions ==
  {DefinitionTable[f] : f \in {"%f_void", "%f_if", "%f_noret", "%f_nofn",
                               "%f_badfn"}}

UseOpcodes ==
  {"OpGroupDecorate", "OpDecorate", "OpEnqueueKernel", "OpEntryPoint",
   "OpExecutionMode", "OpExecutionModeId", "OpFunctionCall",
   "OpGetKernelNDrangeSubGroupCount", "OpGetKernelNDrangeMaxSubGroupSize",
   "OpGetKernelWorkGroupSize", "OpGetKernelPreferredWorkGroupSizeMultiple",
   "OpGetKernelLocalSizeForSubgroupCount", "OpGetKernelMaxNumSubgroups",
   "OpName", "OpCooperativeMatrixPerElementOpNV",
   "OpCooperativeMatrixReduceNV", "OpCooperativeMatrixLoadTensorNV",
   "OpConstantFunctionPointerINTEL", "OpExtInst.NonSemantic",
   "OpExtInst.DebugInfo", "OpExtInst", "OpStore", "OpReturnValue",
   "OpMemberDecorate"}

UseLists == SeqsUpTo({PlainInst(op) : op \in UseOpcodes}, MaxUses)

\* The instructions of the modules whose order is examined.
LayoutInstructions ==
  {DefinitionTable["%f_if"], DefinitionTable["%f_void"],
   DefinitionTable["%f_nofn"], DefinitionTable["%f_nodef"],
   DefinitionTable["%par_int"], DefinitionTable["%par_float"],
   DefinitionTable["%par_nodef"], PlainInst("OpLabel")}

LayoutModules ==
  UNION {[1..k -> LayoutInstructions] : k \in 1..MaxModuleLen}

-----------------------------------------------------------------------------
(* The walk: each step dispatches the next instruction of the module to    *)
(* the handler of its opcode; the walk goes on while the answer is         *)
(* success.                                                                *)

Running ==
  /\ pc < Len(ordered_instructions)
  /\ result.code \in {"none", SPV_SUCCESS}

Current == ordered_instructions[pc + 1]

Last == ordered_instructions[pc]

\* What a run is given and never changes.
Module == <<capabilities, addressing_model, relax_logical_pointer,
            before_hlsl_legalization, ordered_instructions, definitions,
            uses, uconvert_spec_constant_op, tail_call_elimination>>

Context == <<Module, stack>>

ConstantComposite ==
  /\ Running
  /\ Current.opcode \in {"OpConstantComposite", "OpSpecConstantComposite"}
  /\ family' \in Outcomes(ValidateConstantComposite(Current))
  /\ result' = ConstantPass(Current, family')
  /\ pc' = pc + 1
  /\ UNCHANGED Context

ConstantNull ==
  /\ Running
  /\ Current.opcode = "OpConstantNull"
  /\ family' \in Outcomes(ValidateConstantNull(Current))
  /\ result' = ConstantPass(Current, family')
  /\ pc' = pc + 1
  /\ UNCHANGED Context

\* ValidateConstantNull up to its call of IsTypeNullable.
ConstantNullCall ==
  /\ Running
  /\ Current.opcode = "OpConstantNull"
  /\ stack = <<>>
  /\ LET result_type == FindDef(Current.type_id) IN
     IF result_type = NullInst
       THEN /\ family' = ConstantNullAnswer(Current, FALSE)
            /\ result' = ConstantPass(Current, family')
            /\ pc' = pc + 1
            /\ stack' = stack
       ELSE /\ stack' = <<Frame(result_type.words)>>
            /\ UNCHANGED <<family, result, pc>>
  /\ UNCHANGED Module

\* The innermost activation calls IsTypeNullable: a new activation, or the
\* same one reused when the call is in tail position and the build turns
\* such calls into jumps.
IsTypeNullableRecurse ==
  /\ stack # <<>>
  /\ Recurses(stack[Len(stack)])
  /\ LET top == stack[Len(stack)]
         callee == Frame(NextType(top).words)
     IN IF tail_call_elimination /\ InTailPosition(top)
          THEN stack' = [stack EXCEPT ![Len(stack)] = callee]
          ELSE /\ Len(stack) < StackLimit
               /\ stack' = Append(stack, callee)
  /\ UNCHANGED <<family, result, pc, Module>>

\* The call needs an activation and the stack has no room left.
StackExhausted ==
  /\ stack # <<>>
  /\ Recurses(stack[Len(stack)])
  /\ ~(tail_call_elimination /\ InTailPosition(stack[Len(stack)]))
  /\ Len(stack) = StackLimit
  /\ family' = Crash
  /\ result' = ConstantPass(Current, family')
  /\ pc' = pc + 1
  /\ stack' = <<>>
  /\ UNCHANGED Module

\* The innermost activation returns; when the outermost one has returned,
\* ValidateConstantNull and ConstantPass finish.
IsTypeNullableReturn ==
  /\ stack # <<>>
  /\ ~Recurses(stack[Len(stack)])
  /\ LET after == Unwind(SubSeq(stack, 1, Len(stack) - 1),
                         ReturnValue(stack[Len(stack)]))
     IN /\ stack' = after.stack
        /\ IF after.returned
             THEN /\ family' = ConstantNullAnswer(Current, after.value)
                  /\ result' = ConstantPass(Current, family')
                  /\ pc' = pc + 1
             ELSE UNCHANGED <<family, result, pc>>
  /\ UNCHANGED Module

Function ==
  /\ Running
  /\ Current.opcode = "OpFunction"
  /\ family' \in Outcomes(ValidateFunction(Current))
  /\ result' = family'
  /\ pc' = pc + 1
  /\ UNCHANGED Context

FunctionParameter ==
  /\ Running
  /\ Current.opcode = "OpFunctionParameter"
  /\ family' \in Outcomes(ValidateFunctionParameter(Current, pc + 1))
  /\ result' = family'
  /\ pc' = pc + 1
  /\ UNCHANGED Context

FunctionCall ==
  /\ Running
  /\ Current.opcode = "OpFunctionCall"
  /\ family' \in Outcomes(ValidateFunctionCall(Current))
  /\ result' = family'
  /\ pc' = pc + 1
  /\ UNCHANGED Context

ConstantBool ==
  /\ Running
  /\ Current.opcode \in {"OpConstantTrue", "OpConstantFalse",
                         "OpSpecConstantTrue", "OpSpecConstantFalse"}
  /\ family' \in Outcomes(ValidateConstantBool(Current))
  /\ result' = ConstantPass(Current, family')
  /\ pc' = pc + 1
  /\ UNCHANGED Context

ConstantSampler ==
  /\ Running
  /\ Current.opcode = "OpConstantSampler"
  /\ family' \in Outcomes(ValidateConstantSampler(Current))
  /\ result' = ConstantPass(Current, family')
  /\ pc' = pc + 1
  /\ UNCHANGED Context

SpecConstant ==
  /\ Running
  /\ Current.opcode = "OpSpecConstant"
  /\ family' \in Outcomes(ValidateSpecConstant(Current))
  /\ result' = ConstantPass(Current, family')
  /\ pc' = pc + 1
  /\ UNCHANGED Context

SpecConstantOp ==
  /\ Running
  /\ Current.opcode = "OpSpecConstantOp"
  /\ family' \in Outcomes(ValidateSpecConstantOp(Current))
  /\ result' = ConstantPass(Current, family')
  /\ pc' = pc + 1
  /\ UNCHANGED Context

ConstantFunctionPointerINTEL ==
  /\ Running
  /\ Current.opcode = "OpConstantFunctionPointerINTEL"
  /\ family' \in Outcomes(ValidateConstantFunctionPointerINTEL(Current))
  /\ result' = ConstantPass(Current, family')
  /\ pc' = pc + 1
  /\ UNCHANGED Context

\* An opcode the switch of ConstantPass has no case for: only the rule
\* after the switch applies.
PlainConstant ==
  /\ Running
  /\ Current.opcode \in {"OpConstant", "OpUndef"}
  /\ family' = NotRun
  /\ result' = ConstantPass(Current, Success)
  /\ pc' = pc + 1
  /\ UNCHANGED Context

CooperativeMatrixPerElementOp ==
  /\ Running
  /\ Current.opcode = "OpCooperativeMatrixPerElementOpNV"
  /\ family' \in Outcomes(ValidateCooperativeMatrixPerElementOp(Current))
  /\ result' = family'
  /\ pc' = pc + 1
  /\ UNCHANGED Context

\* An opcode neither pass has a case for.
OtherInstruction ==
  /\ Running
  /\ Current.opcode = "OpLabel"
  /\ family' = NotRun
  /\ result' = Success
  /\ pc' = pc + 1
  /\ UNCHANGED Context

\* The constant pass on one constant-defining instruction.
Init ==
  /\ definitions = DefinitionTable
  /\ uses = [id \in FunctionIds |-> FunctionUses(id)]
  /\ uconvert_spec_constant_op = FALSE
  /\ stack = <<>>
  /\ tail_call_elimination = FALSE
  /\ capabilities \in SUBSET {"Shader", "Float16"}
  /\ addressing_model = "Logical"
  /\ relax_logical_pointer = FALSE
  /\ before_hlsl_legalization = FALSE
  /\ ordered_instructions \in
       {<<inst>> : inst \in CompositeInstructions \cup NullInstructions}
  /\ pc = 0
  /\ family = NotRun
  /\ result = NotRun

Next == ConstantComposite \/ ConstantNull

Spec == Init /\ [][Next]_vars

\* The constant pass on one constant-defining instruction of any family,
\* under every set of the capabilities its rules ask about.
InitConstant ==
  /\ definitions = DefinitionTable
  /\ uses = [id \in FunctionIds |-> FunctionUses(id)]
  /\ uconvert_spec_constant_op \in BOOLEAN
  /\ stack = <<>>
  /\ tail_call_elimination = FALSE
  /\ capabilities \in
       SUBSET {"Shader", "Kernel", "FunctionPointersINTEL", "Float16"}
  /\ addressing_model = "Logical"
  /\ relax_logical_pointer = FALSE
  /\ before_hlsl_legalization = FALSE
  /\ ordered_instructions \in {<<inst>> : inst \in ConstantInstructions}
  /\ pc = 0
  /\ family = NotRun
  /\ result = NotRun

NextConstant ==
  \/ ConstantBool
  \/ ConstantComposite
  \/ ConstantSampler
  \/ ConstantNull
  \/ SpecConstant
  \/ SpecConstantOp
  \/ ConstantFunctionPointerINTEL
  \/ PlainConstant

SpecConstantPass == InitConstant /\ [][NextConstant]_vars

\* Both passes walked over a module from its first instruction.
InitWalk ==
  /\ definitions = DefinitionTable
  /\ uses = [id \in FunctionIds |-> FunctionUses(id)]
  /\ uconvert_spec_constant_op = FALSE
  /\ stack = <<>>
  /\ tail_call_elimination = FALSE
  /\ capabilities \in {{}, {"Shader"}}
  /\ addressing_model = "Logical"
  /\ relax_logical_pointer = FALSE
  /\ before_hlsl_legalization = FALSE
  /\ ordered_instructions \in WalkModules
  /\ pc = 0
  /\ family = NotRun
  /\ result = NotRun

NextWalk ==
  \/ PlainConstant
  \/ SpecConstant
  \/ ConstantComposite
  \/ Function
  \/ FunctionParameter
  \/ FunctionCall
  \/ CooperativeMatrixPerElementOp
  \/ OtherInstruction

SpecWalk == InitWalk /\ [][NextWalk]_vars

\* The composites of the tensor types of rank above one, and the tensor
\* constants offered as their constituents.
TensorResultTypes == {"%ten2", "%ten2_23", "%ten2_2S", "%ten2_short", "%ten3"}

TensorConstituentPool(type_id) ==
  IF type_id = "%ten3"
    THEN {"%u_ten2_23", "%u_ten2", "%u_ten2_short", "%cten1", "%u_tenS_long",
          "%c1"}
    ELSE {"%cten1", "%u_ten1S", "%u_ten1_sampler", "%u_ten1_3", "%u_ten1_long",
          "%u_ten1_noshape", "%u_tenS1", "%u_tenS1_3", "%u_tenS_long",
          "%u_ten2", "%undef_ten", "%c1"}

TensorInstructions ==
  UNION {{ValueInst("OpConstantComposite", t, "%composite", cs) :
            cs \in SeqsUpTo(TensorConstituentPool(t), MaxConstituents)} :
         t \in TensorResultTypes}

InitTensor ==
  /\ definitions = DefinitionTable
  /\ uses = [id \in FunctionIds |-> FunctionUses(id)]
  /\ uconvert_spec_constant_op = FALSE
  /\ stack = <<>>
  /\ tail_call_elimination = FALSE
  /\ capabilities = {}
  /\ addressing_model = "Logical"
  /\ relax_logical_pointer = FALSE
  /\ before_hlsl_legalization = FALSE
  /\ ordered_instructions \in {<<inst>> : inst \in TensorInstructions}
  /\ pc = 0
  /\ family = NotRun
  /\ result = NotRun

NextTensor == ConstantComposite

SpecTensor == InitTensor /\ [][NextTensor]_vars

\* One instruction whose rules ask for a capability or a feature, under
\* every set of those capabilities and features.
InitGated ==
  /\ definitions = DefinitionTable
  /\ uses = [id \in FunctionIds |-> FunctionUses(id)]
  /\ uconvert_spec_constant_op \in BOOLEAN
  /\ stack = <<>>
  /\ tail_call_elimination = FALSE
  /\ capabilities \in
       SUBSET {"Shader", "Kernel", "FunctionPointersINTEL",
               "VariablePointersStorageBuffer"}
  /\ addressing_model \in {"Logical", "Physical64"}
  /\ relax_logical_pointer = FALSE
  /\ before_hlsl_legalization = FALSE
  /\ ordered_instructions \in {<<inst>> : inst \in GatedInstructions}
  /\ pc = 0
  /\ family = NotRun
  /\ result = NotRun

NextGated == SpecConstantOp \/ ConstantFunctionPointerINTEL \/ FunctionCall

SpecGated == InitGated /\ [][NextGated]_vars

\* The function pass on one OpFunction, under every list of uses of its
\* result id.
InitFunction ==
  /\ definitions = DefinitionTable
  /\ ordered_instructions \in {<<inst>> : inst \in FunctionInstructions}
  /\ \E used \in UseLists :
       uses = [id \in FunctionIds |->
                 IF id = ordered_instructions[1].id THEN used
                 ELSE FunctionUses(id)]
  /\ uconvert_spec_constant_op = FALSE
  /\ stack = <<>>
  /\ tail_call_elimination = FALSE
  /\ capabilities \in SUBSET {"FunctionPointersINTEL"}
  /\ addressing_model = "Logical"
  /\ relax_logical_pointer = FALSE
  /\ before_hlsl_legalization = FALSE
  /\ pc = 0
  /\ family = NotRun
  /\ result = NotRun

NextFunction == Function

SpecFunction == InitFunction /\ [][NextFunction]_vars

\* One OpConstantNull of each type of a table, run an activation at a time,
\* over the table of the module and the table with the cyclic types.
InitNullable ==
  /\ definitions \in {DefinitionTable, CyclicTable}
  /\ uses = [id \in FunctionIds |-> FunctionUses(id)]
  /\ uconvert_spec_constant_op = FALSE
  /\ stack = <<>>
  /\ tail_call_elimination \in BOOLEAN
  /\ capabilities \in {{}, {"Shader"}}
  /\ addressing_model = "Logical"
  /\ relax_logical_pointer = FALSE
  /\ before_hlsl_legalization = FALSE
  /\ ordered_instructions \in
       {<<ValueInst("OpConstantNull", t, "%null", <<>>)>> :
          t \in DOMAIN definitions \cup {"%nodef"}}
  /\ pc = 0
  /\ family = NotRun
  /\ result = NotRun

NextNullable ==
  \/ ConstantNullCall
  \/ IsTypeNullableRecurse
  \/ StackExhausted
  \/ IsTypeNullableReturn

\* The validating thread keeps running.
SpecNullable ==
  InitNullable /\ [][NextNullable]_vars /\ WF_vars(NextNullable)

\* The function pass on one call, under every configuration.
InitCall ==
  /\ definitions = DefinitionTable
  /\ uses = [id \in FunctionIds |-> FunctionUses(id)]
  /\ uconvert_spec_constant_op = FALSE
  /\ stack = <<>>
  /\ tail_call_elimination = FALSE
  /\ capabilities \in {{}, {"VariablePointersStorageBuffer"},
                       {"VariablePointers", "VariablePointersStorageBuffer"}}
  /\ addressing_model \in {"Logical", "Physical64"}
  /\ relax_logical_pointer \in BOOLEAN
  /\ before_hlsl_legalization \in BOOLEAN
  /\ ordered_instructions \in {<<inst>> : inst \in CallInstructions}
  /\ pc = 0
  /\ family = NotRun
  /\ result = NotRun

NextCall == FunctionCall

SpecCall == InitCall /\ [][NextCall]_vars

\* The function pass entered at any position of a module of functions,
\* parameters and other instructions.
InitLayout ==
  /\ definitions = DefinitionTable
  /\ uses = [id \in FunctionIds |-> FunctionUses(id)]
  /\ uconvert_spec_constant_op = FALSE
  /\ stack = <<>>
  /\ tail_call_elimination = FALSE
  /\ capabilities = {}
  /\ addressing_model = "Logical"
  /\ relax_logical_pointer = FALSE
  /\ before_hlsl_legalization = FALSE
  /\ ordered_instructions \in LayoutModules
  /\ pc \in 0..(Len(ordered_instructions) - 1)
  /\ family = NotRun
  /\ result = NotRun

NextLayout == Function \/ FunctionParameter \/ OtherInstruction

SpecLayout == InitLayout /\ [][NextLayout]_vars

\* The function pass walked over a module of functions, parameters and
\* other instructions from its first instruction.
InitFunctionWalk ==
  /\ definitions = DefinitionTable
  /\ uses = [id \in FunctionIds |-> FunctionUses(id)]
  /\ uconvert_spec_constant_op = FALSE
  /\ stack = <<>>
  /\ tail_call_elimination = FALSE
  /\ capabilities = {}
  /\ addressing_model = "Logical"
  /\ relax_logical_pointer = FALSE
  /\ before_hlsl_legalization = FALSE
  /\ ordered_instructions \in LayoutModules
  /\ pc = 0
  /\ family = NotRun
  /\ result = NotRun

NextFunctionWalk == Function \/ FunctionParameter \/ OtherInstruction

SpecFunctionWalk == InitFunctionWalk /\ [][NextFunctionWalk]_vars

-----------------------------------------------------------------------------
(* Properties.  Dispatched holds in the states a handler has just answered *)
(* in; Last is then the instruction the answer is about.                   *)

Dispatched == pc >= 1 /\ result.code # "none"

Accepted == result.code = SPV_SUCCESS

\* The handler of the opcode accepted, whatever the rule after it says.
FamilyAccepted == family.code = SPV_SUCCESS

ParameterDispatched == Dispatched /\ Last.opcode = "OpFunctionParameter"

\* An OpFunction stands at a position before position p (counted from 1).
FunctionBefore(p) ==
  \E q \in 1..(p - 1) : ordered_instructions[q].opcode = "OpFunction"

\* C1: for every module and every OpFunctionParameter in it, the function
\* pass answers INVALID_LAYOUT exactly when the parameter is the first
\* instruction or no OpFunction stands at an earlier position, the first
\* position of the module included.
C1_LayoutErrorIffNoFunctionBefore ==
  ParameterDispatched =>
    (result.code = SPV_ERROR_INVALID_LAYOUT <=> (pc = 1 \/ ~FunctionBefore(pc)))

CompositeDispatched ==
  /\ Dispatched
  /\ Last.opcode \in {"OpConstantComposite", "OpSpecConstantComposite"}

ResultType == FindDef(Last.type_id)

\* The constituents of the composite, numbered from 1.
Constituents == 1..(Len(Last.words) - 3)
Constituent(i) == FindDef(Last.words[3 + i])

StructDispatched == CompositeDispatched /\ ResultType.opcode = "OpTypeStruct"

\* The member type ids of the struct type, numbered from 1.
Members == 1..(Len(ResultType.words) - 2)
MemberTypeId(i) == ResultType.words[2 + i]

MembersMatchById ==
  /\ Cardinality(Constituents) = Cardinality(Members)
  /\ \A i \in Constituents : Constituent(i).type_id = MemberTypeId(i)

\* The rule after the switch rejects a constant of this result type.
LimitedUseRuleFires ==
  /\ HasCapability("Shader")
  /\ ~IsPointerType(Last.type_id)
  /\ ContainsLimitedUseIntOrFloatType(Last.type_id)

\* C2 as stated: a struct composite is accepted by the constant pass exactly
\* when the constituents are as many as the members and the type id of each
\* equals the member type id of its position, and nothing else decides.
C2_StructAcceptedIffIdsMatch ==
  StructDispatched => (Accepted <=> MembersMatchById)

\* C2: a struct composite is accepted by the constant pass exactly when the
\* constituents are as many as the members, each constituent is a defined
\* constant or undef whose type is defined and has the member type id of
\* its position, and the rule on limited-use 8- and 16-bit types does not
\* reject the struct type.
C2_StructAcceptedIffConstantsMatch ==
  StructDispatched =>
    (Accepted <=>
       /\ MembersMatchById
       /\ \A i \in Constituents :
            /\ Constituent(i) # NullInst
            /\ spvOpcodeIsConstantOrUndef(Constituent(i).opcode)
            /\ FindDef(Constituent(i).type_id) # NullInst
       /\ ~LimitedUseRuleFires)

\* A two-member struct is accepted with two constants of the member types.
C2_Witness ==
  /\ StructDispatched
  /\ MembersMatchById
  /\ Cardinality(Members) = 2
  /\ Accepted

NullDispatched == Dispatched /\ Last.opcode = "OpConstantNull"

\* The nullability predicate in words: scalars; by component; by member;
\* shaped tensors by element; pointers, when with_pointers, by storage
\* class.
RECURSIVE Nullable(_, _)
Nullable(type_id, with_pointers) ==
  LET type == FindDef(type_id)
      DefinedAndNullable(id) == id \in DefinedIds /\ Nullable(id, with_pointers)
  IN CASE type.opcode \in {"OpTypeBool", "OpTypeInt", "OpTypeFloat", "OpTypeEvent",
                           "OpTypeDeviceEvent", "OpTypeReserveId", "OpTypeQueue"}
            -> TRUE
       [] type.opcode \in {"OpTypeArray", "OpTypeMatrix", "OpTypeVector",
                           "OpTypeCooperativeMatrixNV",
                           "OpTypeCooperativeMatrixKHR",
                           "OpTypeCooperativeVectorNV"}
            -> DefinedAndNullable(type.words[3])
       [] type.opcode = "OpTypeStruct"
            -> \A m \in 3..Len(type.words) : DefinedAndNullable(type.words[m])
       [] type.opcode = "OpTypeTensorARM"
            -> Len(type.words) >= 5 /\ DefinedAndNullable(type.words[3])
       [] type.opcode \in {"OpTypePointer", "OpTypeUntypedPointerKHR"}
            -> with_pointers /\ type.words[3] # "PhysicalStorageBuffer"
       [] OTHER -> FALSE

\* C3 as stated: OpConstantNull is accepted by its check exactly when its
\* result type is defined and nullable, where scalars are nullable,
\* arrays, matrices, vectors, cooperative matrices and vectors by their
\* component, structs by every member, shaped tensors by their element, and
\* every other type, pointers included, is not; rejection is INVALID_ID.
C3_NullAcceptedIffNullableNoPointers ==
  NullDispatched =>
    /\ FamilyAccepted <=>
         (Last.type_id \in DefinedIds /\ Nullable(Last.type_id, FALSE))
    /\ ~FamilyAccepted => family.code = SPV_ERROR_INVALID_ID

\* C3: OpConstantNull is accepted by its check exactly when its result type
\* is defined and nullable, where in addition to the types of the statement
\* a typed or untyped pointer is nullable unless its storage class is
\* PhysicalStorageBuffer (so a struct with such a pointer member is
\* nullable too); rejection is INVALID_ID.
C3_NullAcceptedIffNullable ==
  NullDispatched =>
    /\ FamilyAccepted <=>
         (Last.type_id \in DefinedIds /\ Nullable(Last.type_id, TRUE))
    /\ ~FamilyAccepted => family.code = SPV_ERROR_INVALID_ID

\* A null constant of a struct type with a pointer member is accepted.
C3_Witness ==
  /\ NullDispatched
  /\ FamilyAccepted
  /\ ResultType.opcode = "OpTypeStruct"
  /\ \E m \in 3..Len(ResultType.words) : IsPointerType(ResultType.words[m])

PointerNullDispatched == NullDispatched /\ IsPointerType(Last.type_id)

\* C4: an OpConstantNull of a typed or untyped pointer type is accepted by
\* the null-constant check exactly when the storage class of the pointer is
\* not PhysicalStorageBuffer, whatever the pointee is: defined, undefined,
\* nullable or not.
C4_PointerNullIffNotPhysicalStorageBuffer ==
  PointerNullDispatched =>
    (FamilyAccepted <=> ResultType.words[3] # "PhysicalStorageBuffer")

\* A PhysicalStorageBuffer pointer to a nullable pointee is rejected.
C4_Witness ==
  /\ PointerNullDispatched
  /\ ResultType.opcode = "OpTypePointer"
  /\ ResultType.words[3] = "PhysicalStorageBuffer"
  /\ Nullable(ResultType.words[4], TRUE)
  /\ ~FamilyAccepted

CallDispatched == Dispatched /\ Last.opcode = "OpFunctionCall"

Callee == FindDef(Last.words[4])

\* The callee is a defined OpFunction whose function type is a defined
\* OpTypeFunction.
CalleeHasFunctionType ==
  /\ Callee.opcode = "OpFunction"
  /\ FindDef(Callee.words[5]).opcode = "OpTypeFunction"

CalleeType == FindDef(Callee.words[5])

\* The arguments of the call and the parameter types of the callee's
\* function type, both numbered from 1.
Arguments == 1..(Len(Last.words) - 4)
ArgumentId(i) == Last.words[4 + i]
Argument(i) == FindDef(ArgumentId(i))
Parameters == 1..(Len(CalleeType.words) - 3)
ParameterTypeId(i) == CalleeType.words[3 + i]
ParameterType(i) == FindDef(ParameterTypeId(i))

\* The messages of the diagnostics the loop over the arguments returns.
StorageClassMessages ==
  {"StorageBuffer pointer operand requires a variable pointers capability",
   "Invalid storage class for pointer operand"}

ArgumentMessages ==
  {"Missing argument definition.", "Missing argument type definition.",
   "type does not match parameter type", "must be a memory object declaration"}
  \cup StorageClassMessages

\* C5: a call whose callee is a defined OpFunction and whose argument count
\* differs from the parameter count of the callee's function type is
\* rejected with INVALID_ID by a check that comes before the loop over the
\* arguments; it is never accepted.
C5_CountMismatchRejectedBeforeArguments ==
  (CallDispatched /\ CalleeHasFunctionType
     /\ Cardinality(Arguments) # Cardinality(Parameters)) =>
    /\ result.code = SPV_ERROR_INVALID_ID
    /\ result.msg \notin ArgumentMessages

\* The rules on pointer parameters apply.
Strict == addressing_model = "Logical" /\ ~relax_logical_pointer

PointerParameter(i) ==
  ParameterType(i).opcode \in {"OpTypePointer", "OpTypeUntypedPointerKHR"}

ParameterStorageClass(i) == ParameterType(i).words[3]

AllowedStorageClass(sc) ==
  \/ sc \in {"UniformConstant", "Function", "Private", "Workgroup", "AtomicCounter"}
  \/ sc = "StorageBuffer" /\ features_variable_pointers

\* Every check of the call but those on pointer parameters passes: the
\* callee's result type is defined and is the call's, the counts agree,
\* every argument is defined and has the declared type of its parameter.
WellTyped ==
  /\ FindDef(Callee.type_id) # NullInst
  /\ Callee.type_id = Last.type_id
  /\ Cardinality(Arguments) = Cardinality(Parameters)
  /\ \A i \in Arguments :
       /\ Argument(i) # NullInst
       /\ ParameterType(i) # NullInst
       /\ Argument(i).type_id = ParameterTypeId(i)

\* C6: under Logical addressing with relax_logical_pointer off an accepted
\* call has every pointer parameter in an allowed storage class
\* (UniformConstant, Function, Private, Workgroup, AtomicCounter, or
\* StorageBuffer with the variable-pointers feature); a diagnostic about a
\* storage class names the argument of a pointer parameter of a class that
\* is not allowed, and is the answer when that argument is the first of an
\* otherwise well-typed call; with relax_logical_pointer on or another
\* addressing model no storage class keeps a well-typed call from being
\* accepted.
C6_StorageClassOfPointerParameters ==
  (CallDispatched /\ CalleeHasFunctionType) =>
    /\ (Strict /\ Accepted) =>
         \A i \in Arguments :
            PointerParameter(i) => AllowedStorageClass(ParameterStorageClass(i))
    /\ result.msg \in StorageClassMessages =>
         /\ Strict
         /\ result.code = SPV_ERROR_INVALID_ID
         /\ \E i \in Arguments :
              /\ result.names = <<ArgumentId(i)>>
              /\ PointerParameter(i)
              /\ ~AllowedStorageClass(ParameterStorageClass(i))
    /\ (Strict /\ WellTyped /\ 1 \in Arguments /\ PointerParameter(1)
          /\ ~AllowedStorageClass(ParameterStorageClass(1))) =>
         /\ result.msg \in StorageClassMessages
         /\ result.names = <<ArgumentId(1)>>
    /\ (~Strict /\ WellTyped) => Accepted

\* A StorageBuffer pointer parameter is rejected without the feature, the
\* diagnostic naming the argument.
C6_Witness ==
  /\ CallDispatched
  /\ Strict
  /\ CalleeHasFunctionType
  /\ 1 \in Arguments \cap Parameters
  /\ PointerParameter(1)
  /\ ParameterStorageClass(1) = "StorageBuffer"
  /\ result.code = SPV_ERROR_INVALID_ID
  /\ result.names = <<ArgumentId(1)>>
  /\ result.msg \in StorageClassMessages

MemoryObjectDeclaration(i) ==
  Argument(i).opcode \in {"OpVariable", "OpUntypedVariableKHR", "OpFunctionParameter"}

\* The three combinations of storage class and capability.
Exempt(i) ==
  \/ /\ ParameterStorageClass(i) = "StorageBuffer"
     /\ HasCapability("VariablePointersStorageBuffer")
  \/ /\ ParameterStorageClass(i) = "Workgroup"
     /\ HasCapability("VariablePointers")
  \/ ParameterStorageClass(i) = "UniformConstant"

TypeDiffers(i) ==
  Argument(i) # NullInst /\ Argument(i).type_id # ParameterTypeId(i)

\* The relaxed match of the argument's type with the parameter's.
PointersMatch(i) ==
  LET argument_type == FindDef(Argument(i).type_id)
      parameter_type == ParameterType(i)
  IN /\ argument_type.opcode = "OpTypePointer"
     /\ parameter_type.opcode = "OpTypePointer"
     /\ id_decorations(parameter_type.id) \subseteq id_decorations(argument_type.id)
     /\ \/ argument_type.words[4] = parameter_type.words[4]
        \/ LogicallyMatch(FindDef(argument_type.words[4]),
                          FindDef(parameter_type.words[4]))

\* C8: an argument whose type id differs from the declared parameter type id
\* is part of an accepted call only when before_hlsl_legalization is on,
\* both types are OpTypePointer, the decorations of the parameter's type are
\* among those of the argument's, and the pointees are equal in id or match
\* logically; with the option off a call with such an argument is rejected
\* with INVALID_ID.
C8_TypeDifferenceOnlyUnderLegalization ==
  (CallDispatched /\ CalleeHasFunctionType) =>
    /\ Accepted =>
         \A i \in Arguments :
            TypeDiffers(i) => (before_hlsl_legalization /\ PointersMatch(i))
    /\ (/\ ~before_hlsl_legalization
        /\ \E i \in Arguments \cap Parameters : TypeDiffers(i)) =>
         result.code = SPV_ERROR_INVALID_ID

\* The count the result type of the composite declares, when it is known:
\* the component count of a vector, the column count of a matrix, the
\* length of an array given by an integer OpConstant (of 32 bits, or of any
\* width with any_width), the member count of a struct, one for a
\* cooperative matrix, the outermost shape of a shaped tensor given by an
\* integer OpConstant.  Empty when no count is known.
IntegerConstant(inst, any_width) ==
  /\ inst.opcode = "OpConstant"
  /\ FindDef(inst.type_id).opcode = "OpTypeInt"
  /\ any_width \/ FindDef(inst.type_id).words[3] = 32

DeclaredCounts(any_width) ==
  LET type == ResultType IN
  CASE type.opcode \in {"OpTypeVector", "OpTypeMatrix"} -> {type.words[4]}
    [] type.opcode = "OpTypeArray" ->
         LET length == FindDef(type.words[4])
         IN IF IntegerConstant(length, any_width) THEN {length.words[4]} ELSE {}
    [] type.opcode = "OpTypeStruct" -> {Len(type.words) - 2}
    [] type.opcode \in {"OpTypeCooperativeMatrixKHR", "OpTypeCooperativeMatrixNV"}
         -> {1}
    [] type.opcode = "OpTypeTensorARM" /\ Len(type.words) = 5 ->
         LET shape == FindDef(type.words[5])
             outermost == IF Len(shape.words) >= 4
                            THEN FindDef(shape.words[4]) ELSE NullInst
         IN IF IntegerConstant(outermost, TRUE) THEN {outermost.words[4]} ELSE {}
    [] OTHER -> {}

\* C9 as stated: a composite whose result type declares a known count, an
\* array length given by an integer constant of any bit width included, is
\* rejected with INVALID_ID when it has another number of constituents.
C9_KnownCountMismatchRejectedAnyWidth ==
  CompositeDispatched =>
    \A count \in DeclaredCounts(TRUE) :
       count # Cardinality(Constituents) => result.code = SPV_ERROR_INVALID_ID

\* C9: a composite whose result type declares a known count, where an array
\* length is known only when given by an integer constant of 32 bits, is
\* rejected with INVALID_ID when it has another number of constituents.
C9_KnownCountMismatchRejected ==
  CompositeDispatched =>
    \A count \in DeclaredCounts(FALSE) :
       count # Cardinality(Constituents) => result.code = SPV_ERROR_INVALID_ID

\* An array of length 2 by a 32-bit constant is rejected with 3 constituents
\* for its count.
C9_Witness ==
  /\ CompositeDispatched
  /\ ResultType.opcode = "OpTypeArray"
  /\ DeclaredCounts(FALSE) = {2}
  /\ Cardinality(Constituents) = 3
  /\ result.code = SPV_ERROR_INVALID_ID
  /\ result.msg = "count does not match array length"

ArrayDispatched == CompositeDispatched /\ ResultType.opcode = "OpTypeArray"

ElementTypeId == ResultType.words[3]

\* The length operand is defined and gives no known count.
UnresolvedLength(any_width) ==
  /\ FindDef(ResultType.words[4]) # NullInst
  /\ DeclaredCounts(any_width) = {}

\* C10 as stated: an array composite whose length is defined but unresolved
\* is accepted by its handler for every constituent count provided the type
\* id of each constituent equals the element type id of the array; the
\* unresolved length never causes a rejection.
C10_UnresolvedLengthAcceptedIfIdsMatch ==
  (ArrayDispatched /\ UnresolvedLength(TRUE)) =>
    /\ (\A i \in Constituents : Constituent(i).type_id = ElementTypeId)
         => FamilyAccepted
    /\ family.msg # "count does not match array length"

\* C10: an array composite whose length is defined but does not resolve to
\* a 32-bit integer constant is accepted by its handler, for every
\* constituent count, exactly when the element type is defined and each
\* constituent is a defined constant or undef whose type id equals the
\* element type id; the unresolved length never causes a rejection.
C10_UnresolvedLengthAcceptedIffConstantsMatch ==
  (ArrayDispatched /\ UnresolvedLength(FALSE)) =>
    /\ FamilyAccepted <=>
         /\ ElementTypeId \in DefinedIds
         /\ \A i \in Constituents :
              /\ Constituent(i) # NullInst
              /\ spvOpcodeIsConstantOrUndef(Constituent(i).opcode)
              /\ Constituent(i).type_id = ElementTypeId
    /\ family.msg # "count does not match array length"

\* An array whose length is a specialization constant of default value 2 is
\* accepted with 3 constituents.
C10_Witness ==
  /\ ArrayDispatched
  /\ FindDef(ResultType.words[4]).opcode = "OpSpecConstant"
  /\ Cardinality(Constituents) = 3
  /\ FamilyAccepted

-----------------------------------------------------------------------------
(* The constituent loops.                                                  *)

VectorKinds == {"OpTypeVector", "OpTypeCooperativeVectorNV"}
CooperativeMatrixKinds ==
  {"OpTypeCooperativeMatrixKHR", "OpTypeCooperativeMatrixNV"}

\* The rank a tensor result type declares, 0 when it does not resolve.
TensorRank ==
  LET rank == EvalConstantValUint64(FindDef(ResultType.words[4]).id)
  IN IF rank.ok THEN rank.val ELSE 0

\* The ids of the result type that are resolved before any constituent.
ResolvedFirst ==
  LET type == ResultType IN
  CASE type.opcode \in VectorKinds -> {type.words[3]}
    [] type.opcode = "OpTypeMatrix" ->
         IF FindDef(type.words[3]) = NullInst THEN {type.words[3]}
           ELSE {type.words[3], FindDef(type.words[3]).words[3]}
    [] type.opcode = "OpTypeArray" -> {type.words[3], type.words[4]}
    [] type.opcode = "OpTypeTensorARM" ->
         {type.words[3], type.words[4], type.words[5]}
    [] OTHER -> {}

CountRulePasses ==
  LET type == ResultType IN
  CASE type.opcode \in VectorKinds -> ~VectorCountMismatch(Last, type)
    [] type.opcode = "OpTypeMatrix" -> ~MatrixCountMismatch(Last, type)
    [] type.opcode = "OpTypeArray" ->
         ~ArrayCountMismatch(Last, FindDef(type.words[4]))
    [] type.opcode = "OpTypeStruct" ->
         member_count(type) = constituent_count(Last)
    [] type.opcode \in CooperativeMatrixKinds -> constituent_count(Last) = 1
    [] type.opcode = "OpTypeTensorARM" ->
         /\ OperandInRange(FindDef(type.words[5]), 2)
         /\ ~TensorCountMismatch(Last, FindDef(type.words[5]))
    [] OTHER -> FALSE

\* A composite whose constituents are compared with a type the result type
\* names by id: every kind but the tensors of rank above one, whose
\* constituents are tensors compared by element type, rank and shape.
ConstituentsExamined ==
  /\ CompositeDispatched
  /\ ResultType # NullInst
  /\ isCompositeType(ResultType)
  /\ \A id \in ResolvedFirst : FindDef(id) # NullInst
  /\ CountRulePasses
  /\ ResultType.opcode = "OpTypeTensorARM" => TensorRank <= 1

\* The type of constituent i is not the one its position asks for.
WrongType(i) ==
  LET type == ResultType
      constituent == Constituent(i)
  IN CASE type.opcode \in VectorKinds \cup CooperativeMatrixKinds
               \cup {"OpTypeArray"}
            -> constituent.type_id # type.words[3]
       [] type.opcode = "OpTypeStruct"
            -> constituent.type_id # type.words[2 + i]
       [] type.opcode = "OpTypeTensorARM"
            -> TensorRank = 1 /\ constituent.type_id # type.words[3]
       [] type.opcode = "OpTypeMatrix"
            -> LET column == FindDef(type.words[3])
                   vector == FindDef(constituent.type_id)
               IN \/ vector.opcode # column.opcode
                  \/ vector.words[3] # column.words[3]
                  \/ vector.words[4] # column.words[4]
       [] OTHER -> FALSE

\* Constituent i breaks one of the rules for a single constituent.
Violates(i) ==
  \/ Constituent(i) = NullInst
  \/ ~spvOpcodeIsConstantOrUndef(Constituent(i).opcode)
  \/ FindDef(Constituent(i).type_id) = NullInst
  \/ WrongType(i)

LowestViolation == Min({i \in Constituents : Violates(i)})

\* The diagnostic points at constituent i: by its id, by being attached to
\* it, or by its index.
Identifies(d, i) ==
  \/ \E k \in DOMAIN d.names : d.names[k] \in {Last.words[3 + i], ToString(i - 1)}
  \/ Constituent(i) # NullInst /\ d.at = Constituent(i)

\* The handler answers the same whatever stands after constituent i.
NothingLaterExamined(i) ==
  \A j \in Constituents, id \in ConstituentPool(Last.type_id) :
    j > i =>
      \E d \in Outcomes(ValidateConstantComposite(
                         [Last EXCEPT !.words[3 + j] = id])) :
        /\ d.code = family.code
        /\ d.msg = family.msg
        /\ d.names = family.names

\* C11: a composite constant that passes its count rule and has a
\* constituent that is undefined, not a constant or undef, or of the wrong
\* type is answered with one INVALID_ID diagnostic that names the violating
\* constituent of lowest position, and the answer does not depend on any
\* constituent after it.
C11_LowestViolatingConstituentNamed ==
  (ConstituentsExamined /\ \E i \in Constituents : Violates(i)) =>
    /\ family.code = SPV_ERROR_INVALID_ID
    /\ Identifies(family, LowestViolation)
    /\ NothingLaterExamined(LowestViolation)

\* The same with the abnormal termination left aside.
C11_LowestViolatingConstituentNamedUnlessCrash ==
  (ConstituentsExamined /\ \E i \in Constituents : Violates(i)) =>
    \/ family.code = CRASH
    \/ /\ family.code = SPV_ERROR_INVALID_ID
       /\ Identifies(family, LowestViolation)
       /\ NothingLaterExamined(LowestViolation)

C11_Witness ==
  /\ ConstituentsExamined
  /\ Cardinality(Constituents) = 3
  /\ LowestViolation = 2
  /\ Violates(3)
  /\ Identifies(family, 2)

-----------------------------------------------------------------------------
(* Missing definitions.                                                    *)

ErrorKinds ==
  {SPV_ERROR_INVALID_ID, SPV_ERROR_INVALID_DATA, SPV_ERROR_INVALID_CAPABILITY,
   SPV_ERROR_INVALID_LAYOUT}

\* The instruction just dispatched makes its handler look up an id that
\* has no definition, at one of the lookups whose answer is read unguarded.
LooksUpMissingDefinition ==
  \/ /\ Last.opcode = "OpSpecConstant"
     /\ FindDef(Last.type_id) = NullInst
  \/ /\ Last.opcode = "OpFunctionCall"
     /\ FindDef(Last.words[4]).opcode = "OpFunction"
     /\ FindDef(FindDef(Last.words[4]).type_id) = NullInst
  \/ /\ Last.opcode = "OpCooperativeMatrixPerElementOpNV"
     /\ FindDef(Last.words[5]).opcode = "OpFunction"
     /\ \/ FindDef(Last.words[4]) = NullInst
        \/ FindDef(FindDef(Last.words[5]).words[5]) = NullInst
  \/ /\ Last.opcode = "OpConstantComposite"
     /\ ResultType.opcode = "OpTypeMatrix"
     /\ \E i \in Constituents :
          /\ FindDef(Constituent(i).type_id).opcode = "OpTypeVector"
          /\ FindDef(FindDef(Constituent(i).type_id).words[3]) = NullInst

\* The instruction just dispatched is a tensor composite of rank above one
\* with a constituent whose tensor type declares no rank or no shape: the
\* handler reads an operand the type does not have.
ReadsMissingOperand ==
  /\ Last.opcode \in {"OpConstantComposite", "OpSpecConstantComposite"}
  /\ ResultType.opcode = "OpTypeTensorARM"
  /\ \E i \in Constituents :
       /\ FindDef(Constituent(i).type_id).opcode = "OpTypeTensorARM"
       /\ Len(FindDef(Constituent(i).type_id).words) < 5

\* C12: whatever ids an instruction names, defined or not, the handler it
\* is dispatched to returns: the answer is success or one of the four error
\* kinds, never an abnormal termination.
C12_HandlerReturnsSuccessOrErrorKind ==
  Dispatched => result.code \in {SPV_SUCCESS} \cup ErrorKinds

\* Outside the unguarded lookups every handler returns.
C12_ReturnsUnlessUnguardedLookup ==
  (Dispatched /\ ~LooksUpMissingDefinition /\ ~ReadsMissingOperand) =>
    result.code \in {SPV_SUCCESS} \cup ErrorKinds

-----------------------------------------------------------------------------
(* Capability gates.                                                       *)

SpecConstantOpDispatched == Dispatched /\ Last.opcode = "OpSpecConstantOp"

EmbeddedOpcode == Last.words[4]

\* The convert, bitcast, float-arithmetic and access-chain opcodes.
KernelGatedOpcodes ==
  {"OpConvertFToS", "OpConvertSToF", "OpConvertFToU", "OpConvertUToF",
   "OpConvertPtrToU", "OpConvertUToPtr", "OpGenericCastToPtr",
   "OpPtrCastToGeneric", "OpBitcast", "OpFNegate", "OpFAdd", "OpFSub",
   "OpFMul", "OpFDiv", "OpFRem", "OpFMod", "OpAccessChain",
   "OpInBoundsAccessChain", "OpPtrAccessChain", "OpInBoundsPtrAccessChain"}

\* The gate of the embedded opcode is satisfied.
GateSatisfied ==
  CASE EmbeddedOpcode = "OpQuantizeToF16" -> "Shader" \in capabilities
    [] EmbeddedOpcode = "OpUConvert" ->
         uconvert_spec_constant_op \/ "Kernel" \in capabilities
    [] EmbeddedOpcode \in KernelGatedOpcodes -> "Kernel" \in capabilities
    [] OTHER -> TRUE

FunctionPointerDispatched ==
  Dispatched /\ Last.opcode = "OpConstantFunctionPointerINTEL"

\* The instruction just dispatched lacks a capability or feature its rule
\* asks for: the gate of an embedded opcode, the capability of the
\* function-pointer constant, or, in a call that is well typed and under
\* the rules on pointer parameters, a pointer parameter of a storage class
\* that is not allowed.
CapabilityMissing ==
  \/ SpecConstantOpDispatched /\ ~GateSatisfied
  \/ FunctionPointerDispatched /\ "FunctionPointersINTEL" \notin capabilities
  \/ /\ CallDispatched
     /\ Strict
     /\ WellTyped
     /\ PointerParameter(1)
     /\ ~AllowedStorageClass(ParameterStorageClass(1))

\* C13 as stated: every rejection for a missing capability or feature
\* carries INVALID_CAPABILITY.
C13_CapabilityRejectionsCarryInvalidCapability ==
  CapabilityMissing => result.code = SPV_ERROR_INVALID_CAPABILITY

\* C13: every instruction that lacks a capability or feature its rule asks
\* for is rejected; the rejection carries INVALID_CAPABILITY for the
\* function-pointer constant and INVALID_ID for an OpSpecConstantOp and for
\* a call with a pointer parameter of a storage class that is not allowed.
C13_CapabilityRejectionKinds ==
  CapabilityMissing =>
    result.code = IF Last.opcode = "OpConstantFunctionPointerINTEL"
                    THEN SPV_ERROR_INVALID_CAPABILITY
                    ELSE SPV_ERROR_INVALID_ID

C13_Witness ==
  /\ SpecConstantOpDispatched
  /\ EmbeddedOpcode = "OpQuantizeToF16"
  /\ CapabilityMissing
  /\ result.code = SPV_ERROR_INVALID_ID

-----------------------------------------------------------------------------
(* The walk.                                                               *)

\* The answers the two passes can give for the instruction at position p
\* (counted from 1) of the module.
PassAnswers(p) ==
  LET inst == ordered_instructions[p]
      Constant(answers) == {ConstantPass(inst, error) : error \in answers}
  IN CASE inst.opcode \in {"OpConstantComposite", "OpSpecConstantComposite"}
            -> Constant(Outcomes(ValidateConstantComposite(inst)))
       [] inst.opcode = "OpSpecConstant"
            -> Constant(Outcomes(ValidateSpecConstant(inst)))
       [] inst.opcode = "OpFunction" -> Outcomes(ValidateFunction(inst))
       [] inst.opcode = "OpFunctionParameter"
            -> Outcomes(ValidateFunctionParameter(inst, p))
       [] inst.opcode = "OpFunctionCall" -> Outcomes(ValidateFunctionCall(inst))
       [] inst.opcode = "OpCooperativeMatrixPerElementOpNV"
            -> Outcomes(ValidateCooperativeMatrixPerElementOp(inst))
       [] OTHER -> Constant({Success})

Positions == 1..Len(ordered_instructions)

\* The state part of C14, with the kinds of answer in kinds.
WalkAnswers(kinds) ==
  /\ \A p \in 1..(pc - 1) : Success \in PassAnswers(p)
  /\ Dispatched => result \in PassAnswers(pc)
  /\ Dispatched => result.code \in kinds
  /\ (\A p \in Positions : PassAnswers(p) = {Success}) =>
       result.code \in {"none", SPV_SUCCESS}
  /\ (pc = Len(ordered_instructions) /\ Accepted) =>
       \A p \in Positions : Success \in PassAnswers(p)
  /\ Running => ENABLED NextWalk

\* C14: a walk from the first instruction gives each instruction it
\* dispatches one answer, success or one error of the four kinds; every
\* instruction before the last dispatched one was answered with success, so
\* an error is the error of the earliest failing instruction; after an error
\* no further instruction is dispatched; the walk ends in success exactly
\* when every instruction is answered with success.
C14_WalkReturnsEarliestError ==
  /\ [](WalkAnswers({SPV_SUCCESS} \cup ErrorKinds))
  /\ [][Running /\ pc' = pc + 1]_vars

\* The same with the abnormal termination counted as the end of the walk.
C14_WalkStopsAtEarliestFailure ==
  /\ [](WalkAnswers({SPV_SUCCESS, CRASH} \cup ErrorKinds))
  /\ [][Running /\ pc' = pc + 1]_vars

-----------------------------------------------------------------------------
(* Function parameters.                                                    *)

\* The position of the nearest OpFunction before the parameter just
\* dispatched, and the number of parameters strictly between the two.
NearestFunction ==
  CHOOSE q \in 1..(pc - 1) :
    /\ ordered_instructions[q].opcode = "OpFunction"
    /\ \A r \in (q + 1)..(pc - 1) : ordered_instructions[r].opcode # "OpFunction"

ParametersBetween ==
  Cardinality({r \in (NearestFunction + 1)..(pc - 1) :
                 ordered_instructions[r].opcode = "OpFunctionParameter"})

DeclaredType == FindDef(ordered_instructions[NearestFunction].words[5])

\* The parameter types the function type declares, numbered from 0.
DeclaredParameters == 0..(Len(DeclaredType.words) - 4)

\* C15: an OpFunctionParameter with an OpFunction before it is accepted
\* exactly when the function type of the nearest such OpFunction is
\* defined, the number of parameters between the two is an index of a
\* declared parameter type, and the parameter's type id is the declared id
\* at that index; otherwise the answer is INVALID_ID.
C15_ParameterAcceptedIffDeclaredAtIndex ==
  (ParameterDispatched /\ FunctionBefore(pc)) =>
    /\ Accepted <=>
         /\ DeclaredType # NullInst
         /\ ParametersBetween \in DeclaredParameters
         /\ Last.type_id = DeclaredType.words[4 + ParametersBetween]
    /\ ~Accepted => result.code = SPV_ERROR_INVALID_ID

\* The same for a function that is not the first instruction of the module
\* and declared parameter types that are defined.
C15_ParameterAcceptedIffDeclaredAndDefinedAtIndex ==
  (ParameterDispatched /\ FunctionBefore(pc) /\ NearestFunction > 1) =>
    /\ Accepted <=>
         /\ DeclaredType # NullInst
         /\ ParametersBetween \in DeclaredParameters
         /\ Last.type_id = DeclaredType.words[4 + ParametersBetween]
         /\ FindDef(Last.type_id) # NullInst
    /\ ~Accepted => result.code = SPV_ERROR_INVALID_ID

-----------------------------------------------------------------------------
(* The rule on 8- and 16-bit constants.                                    *)

ConstantDispatched == Dispatched /\ spvOpcodeIsConstant(Last.opcode)

\* The family rule passed: the handler accepted, or the opcode has none.
FamilyPassed == family.code \in {SPV_SUCCESS, "none"}

\* C16: a constant-defining instruction that passes its family rule, or
\* has none, is rejected with INVALID_ID exactly when Shader is declared,
\* its result type is not a pointer type and its result type contains a
\* limited-use 8- or 16-bit integer or float; otherwise it is accepted.  When
\* the family rule returns an error that error is the answer of the pass.
C16_LimitedUseRuleAfterFamilyRule ==
  ConstantDispatched =>
    /\ FamilyPassed =>
         /\ result.code \in {SPV_SUCCESS, SPV_ERROR_INVALID_ID}
         /\ result.code = SPV_ERROR_INVALID_ID <=>
              /\ "Shader" \in capabilities
              /\ ~IsPointerType(Last.type_id)
              /\ ContainsLimitedUseIntOrFloatType(Last.type_id)
    /\ family.code \in ErrorKinds => result = family

\* A constant of an opcode without family handler is rejected by the rule.
C16_Witness ==
  /\ ConstantDispatched
  /\ Last.opcode = "OpConstant"
  /\ family.code = "none"
  /\ "Shader" \in capabilities
  /\ result.code = SPV_ERROR_INVALID_ID

-----------------------------------------------------------------------------
(* Uses of a function's result id.                                         *)

FunctionDispatched == Dispatched /\ Last.opcode = "OpFunction"

\* The function-type operand is a defined Function type whose return type
\* is the result type of the OpFunction.
FunctionMatchesType ==
  /\ FindDef(Last.words[5]).opcode = "OpTypeFunction"
  /\ Last.type_id = FindDef(Last.words[5]).words[3]

AllowList ==
  {"OpGroupDecorate", "OpDecorate", "OpEnqueueKernel", "OpEntryPoint",
   "OpExecutionMode", "OpExecutionModeId", "OpFunctionCall",
   "OpGetKernelNDrangeSubGroupCount", "OpGetKernelNDrangeMaxSubGroupSize",
   "OpGetKernelWorkGroupSize", "OpGetKernelPreferredWorkGroupSizeMultiple",
   "OpGetKernelLocalSizeForSubgroupCount", "OpGetKernelMaxNumSubgroups",
   "OpName", "OpCooperativeMatrixPerElementOpNV",
   "OpCooperativeMatrixReduceNV", "OpCooperativeMatrixLoadTensorNV"}

UsesOfLast == uses[Last.id]

AllowedUse(use) ==
  \/ use.opcode \in AllowList
  \/ use.opcode \in {"OpExtInst.NonSemantic", "OpExtInst.DebugInfo"}
  \/ /\ use.opcode = "OpConstantFunctionPointerINTEL"
     /\ "FunctionPointersINTEL" \in capabilities

\* C17: an OpFunction whose function type is a defined Function type with
\* the OpFunction's result type as return type is accepted exactly when
\* every use of its result id is by an opcode of the allow-list, by a debug
\* or non-semantic instruction, or, with FunctionPointersINTEL declared, by
\* the function-pointer constant; otherwise the answer is INVALID_ID
\* attached to the first use that is not allowed.
C17_FunctionAcceptedIffUsesAllowed ==
  (FunctionDispatched /\ FunctionMatchesType) =>
    /\ Accepted <=> \A k \in DOMAIN UsesOfLast : AllowedUse(UsesOfLast[k])
    /\ ~Accepted =>
         /\ result.code = SPV_ERROR_INVALID_ID
         /\ \E k \in DOMAIN UsesOfLast :
              /\ result.at = UsesOfLast[k]
              /\ ~AllowedUse(UsesOfLast[k])
              /\ \A j \in 1..(k - 1) : AllowedUse(UsesOfLast[j])

\* A use by the function-pointer constant without the capability, after an
\* allowed use, is the one reported.
C17_Witness ==
  /\ FunctionDispatched
  /\ FunctionMatchesType
  /\ "FunctionPointersINTEL" \notin capabilities
  /\ Len(UsesOfLast) = 2
  /\ UsesOfLast[1].opcode = "OpFunctionCall"
  /\ UsesOfLast[2].opcode = "OpConstantFunctionPointerINTEL"
  /\ result.code = SPV_ERROR_INVALID_ID
  /\ result.at = UsesOfLast[2]

\* C18: the handler of OpSpecConstantOp accepts exactly when the gate of the
\* embedded opcode is satisfied: Shader for QuantizeToF16, the uconvert
\* feature flag or Kernel for UConvert, Kernel for the convert, bitcast,
\* float-arithmetic and access-chain opcodes, nothing for any other opcode.
C18_SpecConstantOpAcceptedIffGateSatisfied ==
  SpecConstantOpDispatched => (FamilyAccepted <=> GateSatisfied)

\* UConvert passes on the feature flag alone.
C18_Witness ==
  /\ SpecConstantOpDispatched
  /\ EmbeddedOpcode = "OpUConvert"
  /\ uconvert_spec_constant_op
  /\ "Kernel" \notin capabilities
  /\ FamilyAccepted

\* The result type of the instruction just dispatched is a pointer whose
\* pointee is a function type.
PointerToFunctionType ==
  /\ FindDef(Last.type_id) # NullInst
  /\ FindDef(Last.type_id).opcode = "OpTypePointer"
  /\ FindDef(FindDef(Last.type_id).words[4]) # NullInst
  /\ FindDef(FindDef(Last.type_id).words[4]).opcode = "OpTypeFunction"

\* The function the instruction just dispatched names.
NamedFunction == FindDef(Last.words[4])

\* The named function is an OpFunction of the pointee function type.
NamedFunctionOfPointeeType ==
  /\ NamedFunction.opcode = "OpFunction"
  /\ NamedFunction.words[5] = FindDef(Last.type_id).words[4]

\* C19: an OpConstantFunctionPointerINTEL without the capability is
\* rejected with INVALID_CAPABILITY whatever its type and function are; with
\* the capability and a pointer-to-function result type it is accepted when
\* the named function has no definition, and otherwise exactly when that
\* definition is an OpFunction whose function type is the pointee.
C19_FunctionPointerConstantRule ==
  FunctionPointerDispatched =>
    /\ "FunctionPointersINTEL" \notin capabilities =>
         family.code = SPV_ERROR_INVALID_CAPABILITY
    /\ ("FunctionPointersINTEL" \in capabilities /\ PointerToFunctionType) =>
         IF NamedFunction = NullInst THEN FamilyAccepted
         ELSE FamilyAccepted <=> NamedFunctionOfPointeeType

\* A defined OpFunction of another function type is refused.
C19_Witness ==
  /\ FunctionPointerDispatched
  /\ "FunctionPointersINTEL" \in capabilities
  /\ PointerToFunctionType
  /\ NamedFunction # NullInst
  /\ NamedFunction.opcode = "OpFunction"
  /\ ~NamedFunctionOfPointeeType
  /\ ~FamilyAccepted

\* ValidateConstantNull has returned its answer for the OpConstantNull.
NullabilityAnswered ==
  /\ pc = 1
  /\ family.code \in {SPV_SUCCESS} \cup ErrorKinds

\* The ids the nullability check can go on to from a type.
TraversedIds(inst) ==
  CASE inst.opcode \in NullableByBaseOpcodes -> {inst.words[3]}
    [] inst.opcode = "OpTypeStruct" ->
         {inst.words[i] : i \in 3..Len(inst.words)}
    [] inst.opcode = "OpTypeTensorARM" ->
         IF Len(inst.words) > 4 THEN {inst.words[3]} ELSE {}
    [] OTHER -> {}

RECURSIVE ReachedFrom(_)
ReachedFrom(ids) ==
  LET further == ids \cup UNION {TraversedIds(FindDef(i)) : i \in ids}
  IN IF further = ids THEN ids ELSE ReachedFrom(further)

\* A type that contains itself can be reached from the result type.
CycleReachable ==
  \E id \in ReachedFrom({ordered_instructions[1].type_id}) :
     id \in ReachedFrom(TraversedIds(FindDef(id)))

\* C20: the nullability check of an OpConstantNull returns its answer
\* whatever the definition table is, tables in which composite types contain
\* themselves included.
C20_NullabilityCheckTerminates == <>NullabilityAnswered

\* The check returns its answer when no type that contains itself can be
\* reached from the result type.
C20_NullabilityCheckTerminatesWithoutCycle ==
  ~CycleReachable => <>NullabilityAnswered

\* No type is entered a second time while an activation for it is in
\* progress.
C20_NoTypeEnteredTwice ==
  \A i, j \in DOMAIN stack :
     i # j => stack[i].instruction # stack[j].instruction

-----------------------------------------------------------------------------
(* Composites of tensors.                                                  *)

\* The composite just dispatched has a shaped tensor type whose rank
\* resolves to more than one.
TensorOfTensorsDispatched ==
  /\ CompositeDispatched
  /\ ResultType.opcode = "OpTypeTensorARM"
  /\ Len(ResultType.words) = 5
  /\ FindDef(ResultType.words[4]) # NullInst
  /\ TensorRank > 1

ResultShape == FindDef(ResultType.words[5])

ConstituentType(i) == FindDef(Constituent(i).type_id)

\* Dimension j (from 1, outermost first) of a shape has a value.
DimResolvable(shape, j) ==
  /\ shape # NullInst
  /\ j <= Len(shape.words) - 3
  /\ EvalConstantValUint64(shape.words[3 + j]).ok

Dim(shape, j) == EvalConstantValUint64(shape.words[3 + j]).val

RankResolvable(type) ==
  /\ Len(type.words) >= 4
  /\ EvalConstantValUint64(type.words[4]).ok

\* Constituent i is a tensor of the element type of the result type, of
\* rank one less where its rank resolves, and of the shape of the result
\* type at every inner dimension where both values resolve.
ConstituentAgrees(i) ==
  LET type == ConstituentType(i)
      shape == IF Len(type.words) >= 5 THEN FindDef(type.words[5]) ELSE NullInst
  IN /\ type.opcode = "OpTypeTensorARM"
     /\ type.words[3] = ResultType.words[3]
     /\ RankResolvable(type) =>
          EvalConstantValUint64(type.words[4]).val = TensorRank - 1
     /\ \A j \in 1..(TensorRank - 1) :
          (DimResolvable(shape, j) /\ DimResolvable(ResultShape, j + 1)) =>
            Dim(shape, j) = Dim(ResultShape, j + 1)

\* The handler asked the shape of the result type for an operand it does
\* not have.
ReadPastResultShape == family.code = CRASH /\ family.at = ResultShape

\* C21: a composite of a shaped tensor type of rank r > 1 is accepted only
\* if every constituent is a tensor of the same element type, of rank r - 1
\* where its rank resolves, and of the same shape along the inner dimensions
\* where both values resolve; and the shape of the result type is never read
\* past its end.
C21_TensorConstituentsAgreeAndShapeReadInBounds ==
  TensorOfTensorsDispatched =>
    /\ FamilyAccepted => \A i \in Constituents : ConstituentAgrees(i)
    /\ ~ReadPastResultShape

\* The constituents of an accepted composite of tensors agree with its type.
C21_AcceptedTensorConstituentsAgree ==
  (TensorOfTensorsDispatched /\ FamilyAccepted) =>
    \A i \in Constituents : ConstituentAgrees(i)

\* The shape of the result type is read past its end only for a constituent
\* whose shape has at least as many dimensions as the result type's.
C21_ShapeReadPastEndOnlyForLongConstituentShape ==
  (TensorOfTensorsDispatched /\ ReadPastResultShape) =>
    \E i \in Constituents :
       /\ Len(ConstituentType(i).words) = 5
       /\ FindDef(ConstituentType(i).words[5]) # NullInst
       /\ Len(FindDef(ConstituentType(i).words[5]).words)
            >= Len(ResultShape.words)

-----------------------------------------------------------------------------
(* Storage classes of arguments and parameters.                            *)

ArgumentType(i) == FindDef(Argument(i).type_id)

PointerArgument(i) ==
  ArgumentType(i).opcode \in {"OpTypePointer", "OpTypeUntypedPointerKHR"}

ArgumentStorageClass(i) == ArgumentType(i).words[3]

\* The argument is a pointer of another storage class than its parameter.
StorageClassDiffers(i) ==
  /\ PointerArgument(i)
  /\ PointerParameter(i)
  /\ ArgumentStorageClass(i) # ParameterStorageClass(i)

\* C22 as stated: in an accepted call every pointer argument has the
\* storage class of its parameter's pointer type, also when the two types
\* were matched logically, so that the storage-class rule holds for the
\* argument as it does for the parameter.
C22_ArgumentStorageClassIsParameters ==
  (CallDispatched /\ CalleeHasFunctionType /\ Accepted) =>
    \A i \in Arguments :
       PointerArgument(i) =>
         /\ PointerParameter(i)
         /\ ArgumentStorageClass(i) = ParameterStorageClass(i)
         /\ Strict => AllowedStorageClass(ArgumentStorageClass(i))

\* C22: in an accepted call every pointer argument has a pointer parameter;
\* its storage class is the parameter's when the two types have the same
\* id, and differs from it only when before_hlsl_legalization is on and the
\* two types, different in id, match as pointers (decorations and pointee),
\* a match that does not look at the storage class; the storage-class rule
\* holds for the parameter's class, not for the argument's.
C22_StorageClassDiffersOnlyUnderLogicalMatch ==
  (CallDispatched /\ CalleeHasFunctionType /\ Accepted) =>
    \A i \in Arguments :
       PointerArgument(i) =>
         /\ PointerParameter(i)
         /\ StorageClassDiffers(i) =>
              (before_hlsl_legalization /\ TypeDiffers(i) /\ PointersMatch(i))
         /\ Strict => AllowedStorageClass(ParameterStorageClass(i))

\* A StorageBuffer pointer is accepted for a Function pointer parameter
\* without the variable-pointers feature.
C22_Witness ==
  /\ CallDispatched
  /\ CalleeHasFunctionType
  /\ Accepted
  /\ Strict
  /\ \E i \in Arguments :
       /\ StorageClassDiffers(i)
       /\ ArgumentStorageClass(i) = "StorageBuffer"
       /\ ~AllowedStorageClass(ArgumentStorageClass(i))

-----------------------------------------------------------------------------
(* The parameters of each function after a walk.                           *)

\* The walk reached the end of the module and no instruction failed.
WalkPassed ==
  /\ pc = Len(ordered_instructions)
  /\ result.code = SPV_SUCCESS

FunctionPositions ==
  {q \in DOMAIN ordered_instructions :
     ordered_instructions[q].opcode = "OpFunction"}

\* The positions of the OpFunctionParameter instructions between the
\* OpFunction at position q and the next OpFunction.
ParametersOf(q) ==
  {r \in DOMAIN ordered_instructions :
     /\ r > q
     /\ ordered_instructions[r].opcode = "OpFunctionParameter"
     /\ \A m \in (q + 1)..r : ordered_instructions[m].opcode # "OpFunction"}

\* The function type of the OpFunction at position q.
FunctionTypeAt(q) == FindDef(ordered_instructions[q].words[5])

\* The number of parameter types a function type declares.
DeclaredCount(type) == Len(type.words) - 3

\* The rank of position r among the parameters of the function at q, from 1.
RankOf(q, r) == Cardinality({m \in ParametersOf(q) : m <= r})

\* C23: after a walk over a whole module in which no instruction failed the
\* function pass, every OpFunction has a function type, the parameters
\* between it and the next OpFunction are no more than the parameter types
\* that type declares, and the k-th of them has the k-th declared type;
\* fewer parameters than declared are not an error.
C23_ParametersWithinDeclaredTypes ==
  WalkPassed =>
    \A q \in FunctionPositions :
       /\ FunctionTypeAt(q).opcode = "OpTypeFunction"
       /\ Cardinality(ParametersOf(q)) <= DeclaredCount(FunctionTypeAt(q))
       /\ \A r \in ParametersOf(q) :
            ordered_instructions[r].type_id =
              FunctionTypeAt(q).words[3 + RankOf(q, r)]

\* A walk passes over a function that has one parameter where its type
\* declares two.
C23_Witness ==
  /\ WalkPassed
  /\ \E q \in FunctionPositions :
       /\ Cardinality(ParametersOf(q)) = 1
       /\ DeclaredCount(FunctionTypeAt(q)) = 2

====
